---- MODULE Spec2Model ----
(***************************************************************************)
(* A model of the commons-math-interpolation library: the generic          *)
(* utilities (binary search, polynomial evaluation, sequence checks), the  *)
(* linear, natural cubic, Akima and nearest-neighbor interpolators, the    *)
(* interpolation dispatcher with its degrading fallback, and the LOESS     *)
(* smoother with its knot thinning and interpolator.                       *)
(*                                                                         *)
(* Numbers.  A JavaScript number is modelled as a pair <<n, d>>:           *)
(*   d > 0          the finite value n/d, in lowest terms;                 *)
(*   <<0, 0>>       NaN;   <<1, 0>> +Infinity;   <<-1, 0>> -Infinity;      *)
(*   <<2, 0>>       the value undefined (an array read outside the array), *)
(*                  which every arithmetic operation turns into NaN.       *)
(* Finite arithmetic is exact (rational): the rounding of 64-bit floats is *)
(* not modelled, nor is the sign of zero.  The sections "64-bit floats"    *)
(* and "Loess.ts in 64-bit floats" model smooth with the program's own     *)
(* rounding arithmetic instead.                                            *)
(*                                                                         *)
(* Arrays.  An array object is a record [obj, val]: obj names the object   *)
(* ("xVals" and "yVals" are the caller's two arrays, "private" is an       *)
(* object only the library holds) and val is its contents when private.    *)
(* The caller's arrays live in the variables xVals and yVals and can be    *)
(* written by the caller at any time.                                      *)
(***************************************************************************)
EXTENDS Integers, Sequences, FiniteSets

VARIABLES
    xVals,      \* contents of the caller's x array
    yVals,      \* contents of the caller's y array
    entry,      \* the entry point that was called, "" before the call
    method,     \* the method name passed to the dispatcher, "" otherwise
    f,          \* what the call returned: an error, a function or coefficients
    q,          \* the last query the returned function was evaluated at
    r,          \* what that evaluation returned
    pc,         \* "start", "returned", "evaluated"
    writes,     \* number of writes the caller made after the call
    ref,        \* history: the returned function's values when it was returned
    parms       \* the other fields of the parameter object handed to Loess.ts

vars == <<xVals, yVals, entry, method, f, q, r, pc, writes, ref, parms>>

----------------------------------------------------------------------------
(* Bounds of the model.                                                    *)

\* Longest point sequence handed to an interpolator.
MaxLen == 5
\* The x values of valid point sequences are drawn from 0..MaxX.
MaxX == 4
\* Elements of the arrays handed to binarySearch are drawn from 0..MaxKey.
MaxKey == 8
\* Number of writes the caller makes to its arrays after the call.
MaxWrites == 1
\* The arrays handed to the sequence checks: every array of up to MaxCheckLen
\* elements drawn from 0..MaxCheckVal, NaN and the two infinities.
MaxCheckLen == 3
MaxCheckVal == 2
\* The arrays handed to smooth: up to MaxLoessLen points, x from 0..MaxLoessX
\* (non-decreasing), y from 0..MaxLoessY.
MaxLoessLen == 4
MaxWeightedLen == 3
MaxLoessX == 2
MaxLoessY == 1
\* The noise-free linear data handed to smooth in floats: 3..MaxLinearLen
\* points.
MaxLinearLen == 5
\* The points handed to computeAkimaPolyCoefficients when its assignments
\* are followed: 5 to MaxAkimaLen points, x from 0..MaxAkimaX.
MaxAkimaLen == 7
MaxAkimaX == 6

\* The arrays whose bandwidth windows are followed step by step: 3 to
\* MaxWindowLen points, x from 0..MaxWindowX (non-decreasing).
MaxWindowLen == 5
MaxWindowX == 3

----------------------------------------------------------------------------
(* Numbers.                                                                *)

NaN == <<0, 0>>
PInf == <<1, 0>>
NInf == <<-1, 0>>
Undefined == <<2, 0>>

RECURSIVE GCD(_, _)
GCD(a, b) == IF b = 0 THEN a ELSE GCD(b, a % b)

AbsInt(n) == IF n < 0 THEN -n ELSE n

\* The finite number n/d (d # 0), in lowest terms with a positive denominator.
Rat(n, d) ==
    LET g == GCD(AbsInt(n), AbsInt(d))
        s == IF d < 0 THEN -1 ELSE 1
    IN  <<s * (n \div g), AbsInt(d) \div g>>

\* The integer n as a number.
NumOf(n) == <<n, 1>>

IsFin(a) == a[2] > 0
\* isNaN(a): undefined converts to NaN.
isNaN(a) == a[2] = 0 /\ (a[1] = 0 \/ a[1] = 2)
IsInf(a) == a[2] = 0 /\ (a[1] = 1 \/ a[1] = -1)
\* isFinite(a)
isFinite(a) == IsFin(a)

\* -1, 0 or 1: the sign of a finite or infinite number.
Sign(a) == IF a[1] > 0 THEN 1 ELSE IF a[1] < 0 THEN -1 ELSE 0
InfOf(s) == IF s > 0 THEN PInf ELSE NInf

Neg(a) == IF isNaN(a) THEN NaN ELSE <<-a[1], a[2]>>

\* a + b
Add(a, b) ==
    IF isNaN(a) \/ isNaN(b) THEN NaN
    ELSE IF IsInf(a) THEN (IF IsInf(b) /\ b # a THEN NaN ELSE a)
    ELSE IF IsInf(b) THEN b
    ELSE IF a[2] = 1 /\ b[2] = 1 THEN <<a[1] + b[1], 1>>
    ELSE LET g == GCD(a[2], b[2])
         IN  Rat(a[1] * (b[2] \div g) + b[1] * (a[2] \div g), (a[2] \div g) * b[2])

\* a - b
Sub(a, b) == Add(a, Neg(b))

\* a * b
Mul(a, b) ==
    IF isNaN(a) \/ isNaN(b) THEN NaN
    ELSE IF IsInf(a) \/ IsInf(b)
         THEN (IF Sign(a) * Sign(b) = 0 THEN NaN ELSE InfOf(Sign(a) * Sign(b)))
    ELSE IF a[2] = 1 /\ b[2] = 1 THEN <<a[1] * b[1], 1>>
    ELSE LET g1 == GCD(AbsInt(a[1]), b[2])
             g2 == GCD(AbsInt(b[1]), a[2])
         IN  Rat((a[1] \div g1) * (b[1] \div g2), (a[2] \div g2) * (b[2] \div g1))

\* a / b
Div(a, b) ==
    IF isNaN(a) \/ isNaN(b) THEN NaN
    ELSE IF IsInf(a) THEN (IF IsInf(b) THEN NaN
                           ELSE InfOf(Sign(a) * (IF Sign(b) < 0 THEN -1 ELSE 1)))
    ELSE IF IsInf(b) THEN NumOf(0)
    ELSE IF b[1] = 0 THEN (IF a[1] = 0 THEN NaN ELSE InfOf(Sign(a)))
    ELSE Mul(a, IF b[1] < 0 THEN <<-b[2], -b[1]>> ELSE <<b[2], b[1]>>)

\* a < b
Lt(a, b) ==
    IF isNaN(a) \/ isNaN(b) THEN FALSE
    ELSE IF IsInf(a) THEN a = NInf /\ b # NInf
    ELSE IF IsInf(b) THEN b = PInf
    ELSE LET g == GCD(a[2], b[2])
         IN  a[1] * (b[2] \div g) < b[1] * (a[2] \div g)

\* a > b
Gt(a, b) == Lt(b, a)

\* a == b
EqNum(a, b) == ~isNaN(a) /\ ~isNaN(b) /\ a = b

\* a <= b
Le(a, b) == Lt(a, b) \/ EqNum(a, b)

\* a >= b
Ge(a, b) == Le(b, a)

\* Math.abs(a)
MathAbs(a) == IF isNaN(a) THEN NaN ELSE <<AbsInt(a[1]), a[2]>>

\* a[i] of the code's 0-based array a: undefined outside the array.
At(a, i) == IF i >= 0 /\ i < Len(a) THEN a[i + 1] ELSE Undefined

\* Math.max and Math.min on integers (array indices).
MaxI(a, b) == IF a >= b THEN a ELSE b
MinI(a, b) == IF a <= b THEN a ELSE b

----------------------------------------------------------------------------
(* Utils.ts                                                                *)

\* A result of binarySearch: err is "" and val the returned integer, or err
\* names the error thrown; probes lists the indices whose elements the loop
\* compared with the key, in order.
\* A slip: the loop without the final midVal == key test, so that a
\* comparison with NaN counts as "found".
RECURSIVE binarySearchLoopUnchecked(_, _, _, _, _)
binarySearchLoopUnchecked(a, key, low, high, probes) ==
    IF low <= high
    THEN LET mid == (low + high) \div 2
             midVal == At(a, mid)
         IN  IF Lt(midVal, key)
             THEN binarySearchLoopUnchecked(a, key, mid + 1, high, Append(probes, mid))
             ELSE IF Gt(midVal, key)
             THEN binarySearchLoopUnchecked(a, key, low, mid - 1, Append(probes, mid))
             ELSE [err |-> "", val |-> mid, probes |-> Append(probes, mid)]
    ELSE [err |-> "", val |-> -(low + 1), probes |-> probes]

RECURSIVE binarySearchLoop(_, _, _, _, _)
binarySearchLoop(a, key, low, high, probes) ==
    IF low <= high
    THEN LET mid == (low + high) \div 2
             midVal == At(a, mid)
         IN  IF Lt(midVal, key)
             THEN binarySearchLoop(a, key, mid + 1, high, Append(probes, mid))
             ELSE IF Gt(midVal, key)
             THEN binarySearchLoop(a, key, low, mid - 1, Append(probes, mid))
             ELSE IF EqNum(midVal, key)
             THEN [err |-> "", val |-> mid, probes |-> Append(probes, mid)]
             ELSE [err |-> "InvalidComparison", val |-> 0,
                   probes |-> Append(probes, mid)]
    ELSE [err |-> "", val |-> -(low + 1), probes |-> probes]

\* A slip: high starts at a.length instead of a.length - 1.
binarySearchHighLength(a, key) == binarySearchLoop(a, key, 0, Len(a), <<>>)

binarySearch(a, key) == binarySearchLoop(a, key, 0, Len(a) - 1, <<>>)

\* evaluatePoly(c, x): Horner's method, coefficients in ascending order.
RECURSIVE evaluatePolyLoop(_, _, _, _)
evaluatePolyLoop(c, x, i, v) ==
    IF i >= 0 THEN evaluatePolyLoop(c, x, i - 1, Add(Mul(x, v), At(c, i)))
    ELSE v

evaluatePoly(c, x) ==
    LET n == Len(c)
    IN  IF n = 0 THEN NumOf(0)
        ELSE evaluatePolyLoop(c, x, n - 2, At(c, n - 1))

\* trimPoly(c): drops the top order coefficients that are zero, keeps one.
RECURSIVE trimPolyLen(_, _)
trimPolyLen(c, n) ==
    IF n > 1 /\ EqNum(At(c, n - 1), NumOf(0)) THEN trimPolyLen(c, n - 1) ELSE n

\* A slip: nothing is trimmed.
trimPolyNothing(c) == c

trimPoly(c) == SubSeq(c, 1, trimPolyLen(c, Len(c)))

\* A slip: the monotonic check refuses equal neighbours.
checkMonotonicallyIncreasingStrict(a) ==
    IF \E i \in 0..(Len(a) - 1) :
          \/ ~isFinite(At(a, i))
          \/ (i > 0 /\ Le(At(a, i), At(a, i - 1)))
    THEN "InvalidSequence" ELSE ""

\* The checks return "" or the error they throw.  Both loops stop at the
\* first offending element.
checkMonotonicallyIncreasing(a) ==
    IF \E i \in 0..(Len(a) - 1) :
          \/ ~isFinite(At(a, i))
          \/ (i > 0 /\ Lt(At(a, i), At(a, i - 1)))
    THEN "InvalidSequence" ELSE ""

checkStrictlyIncreasing(a) ==
    IF \E i \in 0..(Len(a) - 1) :
          \/ ~isFinite(At(a, i))
          \/ (i > 0 /\ Le(At(a, i), At(a, i - 1)))
    THEN "InvalidSequence" ELSE ""

checkFinite(a) ==
    IF \E i \in 0..(Len(a) - 1) : ~isFinite(At(a, i))
    THEN "InvalidSequence" ELSE ""

\* A slip: a key that is not a knot selects the segment at its insertion
\* point, the segment to the right of the one that holds it.
segmentIndexInsertionPoint(i, nSegments) ==
    LET i2 == IF i < 0 THEN -i - 1 ELSE i
    IN  MaxI(0, MinI(i2, nSegments - 1))

\* The index of the segment evaluatePolySegment uses, from the result i of
\* the binary search and the number of segments.
segmentIndex(i, nSegments) ==
    LET i2 == IF i < 0 THEN -i - 2 ELSE i
    IN  MaxI(0, MinI(i2, nSegments - 1))

\* A slip: the polynomial is evaluated at x, not at x - xVals[i].
evaluatePolySegmentAtX(xv, segmentCoeffs, x) ==
    LET bs == binarySearch(xv, x)
    IN  IF bs.err # "" THEN [err |-> bs.err, val |-> NaN, seg |-> -1]
        ELSE LET i == segmentIndex(bs.val, Len(segmentCoeffs))
             IN  [err |-> "", val |-> evaluatePoly(segmentCoeffs[i + 1], x),
                  seg |-> i]

\* evaluatePolySegment(xVals, segmentCoeffs, x): [err, val, seg].
evaluatePolySegment(xv, segmentCoeffs, x) ==
    LET bs == binarySearch(xv, x)
    IN  IF bs.err # "" THEN [err |-> bs.err, val |-> NaN, seg |-> -1]
        ELSE LET i == segmentIndex(bs.val, Len(segmentCoeffs))
             IN  [err |-> "",
                  val |-> evaluatePoly(segmentCoeffs[i + 1], Sub(x, At(xv, i))),
                  seg |-> i]

\* A zero-filled Float64Array of n elements, and the assignment a[i] = v
\* (a write outside a typed array is ignored).
ZeroArray(n) == [i \in 1..n |-> NumOf(0)]
SetAt(a, i, v) == IF i >= 0 /\ i < Len(a) THEN [a EXCEPT ![i + 1] = v] ELSE a

\* What a coefficient function returns: the error it throws, or the
\* coefficient arrays of the segments.
Thrown(e) == [err |-> e, coeffs |-> <<>>]
Coeffs(c) == [err |-> "", coeffs |-> c]

----------------------------------------------------------------------------
(* Linear.ts                                                               *)

\* The loop over the segments: segmentCoeffs[i] = trimPoly([yVals[i], m]).
linearSegmentCoeffs(xv, yv) ==
    LET n == Len(xv) - 1
    IN  [k \in 1..n |->
            LET i  == k - 1
                dx == Sub(At(xv, i + 1), At(xv, i))
                dy == Sub(At(yv, i + 1), At(yv, i))
                m  == Div(dy, dx)
            IN  trimPoly(<<At(yv, i), m>>)]

computeLinearPolyCoefficients(xv, yv) ==
    IF Len(xv) # Len(yv) THEN Thrown("DimensionMismatch")
    ELSE IF Len(xv) < 2 THEN Thrown("TooFewPoints")
    ELSE IF checkStrictlyIncreasing(xv) # "" THEN Thrown(checkStrictlyIncreasing(xv))
    ELSE Coeffs(linearSegmentCoeffs(xv, yv))

----------------------------------------------------------------------------
(* Cubic.ts                                                                *)

\* The forward sweep: for i = 1 .. n-1 it sets mu[i] and z[i].
RECURSIVE cubicForward(_, _, _, _, _, _, _)
cubicForward(xv, yv, h, n, i, mu, z) ==
    IF i < n
    THEN LET g == Sub(Mul(NumOf(2), Sub(At(xv, i + 1), At(xv, i - 1))),
                      Mul(At(h, i - 1), At(mu, i - 1)))
             t == Add(Sub(Mul(At(yv, i + 1), At(h, i - 1)),
                          Mul(At(yv, i), Sub(At(xv, i + 1), At(xv, i - 1)))),
                      Mul(At(yv, i - 1), At(h, i)))
             zi == Div(Sub(Div(Mul(NumOf(3), t), Mul(At(h, i - 1), At(h, i))),
                           Mul(At(h, i - 1), At(z, i - 1))), g)
         IN  cubicForward(xv, yv, h, n, i + 1,
                          SetAt(mu, i, Div(At(h, i), g)), SetAt(z, i, zi))
    ELSE [mu |-> mu, z |-> z]

\* A slip: b[i] computed with c[i+1] + c[i] in place of c[i+1] + 2 * c[i].
RECURSIVE cubicBackwardSlip(_, _, _, _, _, _, _, _)
cubicBackwardSlip(yv, h, mu, z, i, b, c, d) ==
    IF i >= 0
    THEN LET dx == At(h, i)
             dy == Sub(At(yv, i + 1), At(yv, i))
             ci == Sub(At(z, i), Mul(At(mu, i), At(c, i + 1)))
             bi == Sub(Div(dy, dx), Div(Mul(dx, Add(At(c, i + 1), ci)), NumOf(3)))
             di == Div(Sub(At(c, i + 1), ci), Mul(NumOf(3), dx))
         IN  cubicBackwardSlip(yv, h, mu, z, i - 1,
                               SetAt(b, i, bi), SetAt(c, i, ci), SetAt(d, i, di))
    ELSE [b |-> b, c |-> c, d |-> d]

\* The backward sweep: for i = n-1 down to 0 it sets c[i], b[i] and d[i].
RECURSIVE cubicBackward(_, _, _, _, _, _, _, _)
cubicBackward(yv, h, mu, z, i, b, c, d) ==
    IF i >= 0
    THEN LET dx == At(h, i)
             dy == Sub(At(yv, i + 1), At(yv, i))
             ci == Sub(At(z, i), Mul(At(mu, i), At(c, i + 1)))
             bi == Sub(Div(dy, dx),
                       Div(Mul(dx, Add(At(c, i + 1), Mul(NumOf(2), ci))), NumOf(3)))
             di == Div(Sub(At(c, i + 1), ci), Mul(NumOf(3), dx))
         IN  cubicBackward(yv, h, mu, z, i - 1,
                           SetAt(b, i, bi), SetAt(c, i, ci), SetAt(d, i, di))
    ELSE [b |-> b, c |-> c, d |-> d]

\* The body of computeCubicPolyCoefficients after its checks.
cubicSegmentCoeffs(xv, yv) ==
    LET n   == Len(xv) - 1
        h   == [k \in 1..n |-> Sub(At(xv, k), At(xv, k - 1))]
        fw  == cubicForward(xv, yv, h, n, 1, ZeroArray(n), ZeroArray(n + 1))
        bw  == cubicBackward(yv, h, fw.mu, SetAt(fw.z, n, NumOf(0)), n - 1,
                             ZeroArray(n), ZeroArray(n + 1), ZeroArray(n))
    IN  [k \in 1..n |->
            trimPoly(<<At(yv, k - 1), At(bw.b, k - 1),
                       At(bw.c, k - 1), At(bw.d, k - 1)>>)]

\* A slip: the cubic minimum taken as 2 points.
computeCubicPolyCoefficientsMin2(xv, yv) ==
    IF Len(xv) # Len(yv) THEN Thrown("DimensionMismatch")
    ELSE IF Len(xv) < 2 THEN Thrown("TooFewPoints")
    ELSE IF checkStrictlyIncreasing(xv) # "" THEN Thrown(checkStrictlyIncreasing(xv))
    ELSE Coeffs(cubicSegmentCoeffs(xv, yv))

computeCubicPolyCoefficients(xv, yv) ==
    IF Len(xv) # Len(yv) THEN Thrown("DimensionMismatch")
    ELSE IF Len(xv) < 3 THEN Thrown("TooFewPoints")
    ELSE IF checkStrictlyIncreasing(xv) # "" THEN Thrown(checkStrictlyIncreasing(xv))
    ELSE Coeffs(cubicSegmentCoeffs(xv, yv))

----------------------------------------------------------------------------
(* Akima.ts                                                                *)

\* EPSILON = Number.EPSILON = 2^-EpsilonBits.
EpsilonBits == 52

RECURSIVE ShiftRight(_, _)
ShiftRight(d, k) == IF k = 0 \/ d = 0 THEN d ELSE ShiftRight(d \div 2, k - 1)

\* Math.abs(a) < EPSILON.  For a finite a = n/d this is |n| * 2^52 < d, that
\* is |n| <= (d - 1) div 2^52.
BelowEpsilon(a) ==
    IsFin(a) /\ AbsInt(a[1]) <= ShiftRight(a[2] - 1, EpsilonBits)

differentiateThreePoint(xv, yv, indexOfDifferentiation, indexOfFirstSample, indexOfSecondsample, indexOfThirdSample) ==
    LET x0 == At(yv, indexOfFirstSample)
        x1 == At(yv, indexOfSecondsample)
        x2 == At(yv, indexOfThirdSample)
        t  == Sub(At(xv, indexOfDifferentiation), At(xv, indexOfFirstSample))
        t1 == Sub(At(xv, indexOfSecondsample), At(xv, indexOfFirstSample))
        t2 == Sub(At(xv, indexOfThirdSample), At(xv, indexOfFirstSample))
        a  == Div(Sub(Sub(x2, x0), Mul(Div(t2, t1), Sub(x1, x0))),
                  Sub(Mul(t2, t2), Mul(t1, t2)))
        b  == Div(Sub(Sub(x1, x0), Mul(Mul(a, t1), t1)), t1)
    IN  Add(Mul(Mul(NumOf(2), a), t), b)

\* A slip: coeffs[3] is divided by w, not by w2.
computeHermitePolyCoefficientsByWidth(xv, yv, firstDerivatives) ==
    IF Len(xv) # Len(yv) \/ Len(xv) # Len(firstDerivatives)
    THEN Thrown("DimensionMismatch")
    ELSE IF Len(xv) < 2 THEN Thrown("TooFewPoints")
    ELSE LET n == Len(xv) - 1
         IN  Coeffs([k \in 1..n |->
                LET i   == k - 1
                    w   == Sub(At(xv, i + 1), At(xv, i))
                    yv0 == At(yv, i)
                    yvP == At(yv, i + 1)
                    fd  == At(firstDerivatives, i)
                    fdP == At(firstDerivatives, i + 1)
                    c2  == Div(Sub(Sub(Div(Mul(NumOf(3), Sub(yvP, yv0)), w),
                                       Mul(NumOf(2), fd)), fdP), w)
                    c3  == Div(Add(Add(Div(Mul(NumOf(2), Sub(yv0, yvP)), w), fd),
                                   fdP), w)
                IN  trimPoly(<<yv0, At(firstDerivatives, i), c2, c3>>)])

computeHermitePolyCoefficients(xv, yv, firstDerivatives) ==
    IF Len(xv) # Len(yv) \/ Len(xv) # Len(firstDerivatives)
    THEN Thrown("DimensionMismatch")
    ELSE IF Len(xv) < 2 THEN Thrown("TooFewPoints")
    ELSE LET n == Len(xv) - 1
         IN  Coeffs([k \in 1..n |->
                LET i   == k - 1
                    w   == Sub(At(xv, i + 1), At(xv, i))
                    w2  == Mul(w, w)
                    yv0 == At(yv, i)
                    yvP == At(yv, i + 1)
                    fd  == At(firstDerivatives, i)
                    fdP == At(firstDerivatives, i + 1)
                    c2  == Div(Sub(Sub(Div(Mul(NumOf(3), Sub(yvP, yv0)), w),
                                       Mul(NumOf(2), fd)), fdP), w)
                    c3  == Div(Add(Add(Div(Mul(NumOf(2), Sub(yv0, yvP)), w), fd),
                                   fdP), w2)
                IN  trimPoly(<<yv0, At(firstDerivatives, i), c2, c3>>)])

\* The first derivative the loop over i = 2 .. n-2 assigns at index i.
akimaInteriorDerivative(xv, differences, weights, i) ==
    LET wP == At(weights, i + 1)
        wM == At(weights, i - 1)
    IN  IF BelowEpsilon(wP) /\ BelowEpsilon(wM)
        THEN LET x0  == At(xv, i)
                 xvP == At(xv, i + 1)
                 xvM == At(xv, i - 1)
             IN  Div(Add(Mul(Sub(xvP, x0), At(differences, i - 1)),
                         Mul(Sub(x0, xvM), At(differences, i))),
                     Sub(xvP, xvM))
        ELSE Div(Add(Mul(wP, At(differences, i - 1)), Mul(wM, At(differences, i))),
                 Add(wP, wM))

RECURSIVE akimaInteriorLoop(_, _, _, _, _, _)
akimaInteriorLoop(xv, differences, weights, n, i, fd) ==
    IF i < n - 1
    THEN akimaInteriorLoop(xv, differences, weights, n, i + 1,
            SetAt(fd, i, akimaInteriorDerivative(xv, differences, weights, i)))
    ELSE fd

akimaFirstDerivatives(xv, yv) ==
    LET n == Len(xv) - 1
        differences == [k \in 1..n |->
            Div(Sub(At(yv, k), At(yv, k - 1)), Sub(At(xv, k), At(xv, k - 1)))]
        weights == [k \in 1..n |->
            IF k = 1 THEN NumOf(0)
            ELSE MathAbs(Sub(At(differences, k - 1), At(differences, k - 2)))]
        fd0 == akimaInteriorLoop(xv, differences, weights, n, 2, ZeroArray(n + 1))
        fd1 == SetAt(fd0, 0, differentiateThreePoint(xv, yv, 0, 0, 1, 2))
        fd2 == SetAt(fd1, 1, differentiateThreePoint(xv, yv, 1, 0, 1, 2))
        fd3 == SetAt(fd2, n - 1,
                     differentiateThreePoint(xv, yv, n - 1, n - 2, n - 1, n))
    IN  SetAt(fd3, n, differentiateThreePoint(xv, yv, n, n - 2, n - 1, n))

\* The assignments to firstDerivatives in program order, one record each:
\* the index written, the statement that writes it, the divisors of the
\* divisions the statement performs, and the value written.
akimaDifferences(xv, yv) ==
    [k \in 1..(Len(xv) - 1) |->
        Div(Sub(At(yv, k), At(yv, k - 1)), Sub(At(xv, k), At(xv, k - 1)))]
akimaWeights(differences) ==
    [k \in 1..Len(differences) |->
        IF k = 1 THEN NumOf(0)
        ELSE MathAbs(Sub(At(differences, k - 1), At(differences, k - 2)))]

\* Lines 71 to 80: the assignment at index i.
akimaInteriorStep(xv, differences, weights, i) ==
    LET wP == At(weights, i + 1)
        wM == At(weights, i - 1)
    IN  [index |-> i,
         by |-> IF BelowEpsilon(wP) /\ BelowEpsilon(wM) THEN "distance" ELSE "weighted",
         divisors |-> IF BelowEpsilon(wP) /\ BelowEpsilon(wM)
                      THEN <<Sub(At(xv, i + 1), At(xv, i - 1))>>
                      ELSE <<Add(wP, wM)>>,
         val |-> akimaInteriorDerivative(xv, differences, weights, i)]

\* A slip: the loop runs while i < n.
RECURSIVE akimaInteriorStepsOneMore(_, _, _, _, _)
akimaInteriorStepsOneMore(xv, differences, weights, n, i) ==
    IF i < n
    THEN <<akimaInteriorStep(xv, differences, weights, i)>>
         \o akimaInteriorStepsOneMore(xv, differences, weights, n, i + 1)
    ELSE <<>>

\* Line 70: for (let i = 2; i < n - 1; i++).
RECURSIVE akimaInteriorSteps(_, _, _, _, _)
akimaInteriorSteps(xv, differences, weights, n, i) ==
    IF i < n - 1
    THEN <<akimaInteriorStep(xv, differences, weights, i)>>
         \o akimaInteriorSteps(xv, differences, weights, n, i + 1)
    ELSE <<>>

\* Lines 83 to 86: an assignment of differentiateThreePoint; its divisions
\* are t2 / t1, the one by t2 * t2 - t1 * t2 and the one by t1.
akimaThreePointStep(xv, yv, indexOfDifferentiation, indexOfFirstSample, indexOfSecondsample, indexOfThirdSample) ==
    LET t1 == Sub(At(xv, indexOfSecondsample), At(xv, indexOfFirstSample))
        t2 == Sub(At(xv, indexOfThirdSample), At(xv, indexOfFirstSample))
    IN  [index |-> indexOfDifferentiation,
         by |-> "threePoint",
         divisors |-> <<t1, Sub(Mul(t2, t2), Mul(t1, t2)), t1>>,
         val |-> differentiateThreePoint(xv, yv, indexOfDifferentiation, indexOfFirstSample,
                                         indexOfSecondsample, indexOfThirdSample)]

\* Lines 70 to 86.
akimaDerivativeSteps(xv, yv) ==
    LET n == Len(xv) - 1
    IN  akimaInteriorSteps(xv, akimaDifferences(xv, yv),
                           akimaWeights(akimaDifferences(xv, yv)), n, 2)
        \o <<akimaThreePointStep(xv, yv, 0, 0, 1, 2),
              akimaThreePointStep(xv, yv, 1, 0, 1, 2),
              akimaThreePointStep(xv, yv, n - 1, n - 2, n - 1, n),
              akimaThreePointStep(xv, yv, n, n - 2, n - 1, n)>>

computeAkimaPolyCoefficients(xv, yv) ==
    IF Len(xv) # Len(yv) THEN Thrown("DimensionMismatch")
    ELSE IF Len(xv) < 5 THEN Thrown("TooFewPoints")
    ELSE IF checkStrictlyIncreasing(xv) # "" THEN Thrown(checkStrictlyIncreasing(xv))
    ELSE computeHermitePolyCoefficients(xv, yv, akimaFirstDerivatives(xv, yv))

----------------------------------------------------------------------------
(* Array objects and returned functions.                                   *)

\* The caller's array objects, and an object only the library holds.
CallerArray(name, contents) == [obj |-> name, val |-> contents]
PrivateArray(contents) == [obj |-> "private", val |-> contents]

\* A slip: the array object itself is kept, not a copy of it.
Float64ArrayFromAlias(a) == a

\* Float64Array.from(a): a new array object with the contents of a.
Float64ArrayFrom(a) == PrivateArray(a.val)

\* The contents of array object a when the caller's arrays hold xv and yv.
Deref(a, xv, yv) ==
    IF a.obj = "xVals" THEN xv ELSE IF a.obj = "yVals" THEN yv ELSE a.val

NoArray == PrivateArray(<<>>)

\* What an entry point returns.  err names the error thrown, or is "" and
\* kind says which function was returned:
\*   "poly"    (x) => evaluatePolySegment(xs, coeffs, x)
\*   "nn"      the nearest neighbor function for n >= 2 knots xs, ys
\*   "nan"     the nearest neighbor function for no knot
\*   "first"   the nearest neighbor function for one knot: ys[0]
\*   "const"   the fallback's constant function: c
\*   "coeffs"  no function: the coefficient arrays coeffs
Failed(e) ==
    [err |-> e, kind |-> "none", xs |-> NoArray, ys |-> NoArray,
     coeffs |-> <<>>, c |-> NaN, n |-> 0]
Returned(kind, xs, ys, coeffs, c, n) ==
    [err |-> "", kind |-> kind, xs |-> xs, ys |-> ys,
     coeffs |-> coeffs, c |-> c, n |-> n]

\* (x) => evaluatePolySegment(xValsCopy, segmentCoeffs, x), or the error the
\* coefficient function threw.
polyInterpolator(xa, sc) ==
    IF sc.err # "" THEN Failed(sc.err)
    ELSE Returned("poly", Float64ArrayFrom(xa), NoArray, sc.coeffs, NaN, 0)

createLinearInterpolator(xa, ya) ==
    polyInterpolator(xa, computeLinearPolyCoefficients(xa.val, ya.val))

createCubicSplineInterpolator(xa, ya) ==
    polyInterpolator(xa, computeCubicPolyCoefficients(xa.val, ya.val))

createAkimaSplineInterpolator(xa, ya) ==
    polyInterpolator(xa, computeAkimaPolyCoefficients(xa.val, ya.val))

----------------------------------------------------------------------------
(* NearestNeighbor.ts                                                      *)

\* A slip: checkStrictlyIncreasing called before the returns for n == 0 and
\* n == 1.
createNearestNeighborInterpolatorChecked(xa, ya) ==
    LET xVals2 == Float64ArrayFrom(xa)
        yVals2 == Float64ArrayFrom(ya)
        n == Len(xVals2.val)
    IN  IF n # Len(yVals2.val) THEN Failed("DimensionMismatch")
        ELSE IF checkStrictlyIncreasing(xVals2.val) # ""
             THEN Failed(checkStrictlyIncreasing(xVals2.val))
        ELSE IF n = 0 THEN Returned("nan", NoArray, NoArray, <<>>, NaN, 0)
        ELSE IF n = 1 THEN Returned("first", NoArray, yVals2, <<>>, NaN, 1)
        ELSE Returned("nn", xVals2, yVals2, <<>>, NaN, n)

createNearestNeighborInterpolator(xa, ya) ==
    LET xVals2 == Float64ArrayFrom(xa)
        yVals2 == Float64ArrayFrom(ya)
        n == Len(xVals2.val)
    IN  IF n # Len(yVals2.val) THEN Failed("DimensionMismatch")
        ELSE IF n = 0 THEN Returned("nan", NoArray, NoArray, <<>>, NaN, 0)
        ELSE IF n = 1 THEN Returned("first", NoArray, yVals2, <<>>, NaN, 1)
        ELSE IF checkStrictlyIncreasing(xVals2.val) # ""
             THEN Failed(checkStrictlyIncreasing(xVals2.val))
        ELSE Returned("nn", xVals2, yVals2, <<>>, NaN, n)

\* A slip: d + d <= w, so the midpoint of two knots goes to the left knot.
nearestNeighborTieLeft(xv2, yv2, n, x) ==
    LET bs == binarySearch(xv2, x)
    IN  IF bs.err # "" THEN [err |-> bs.err, val |-> NaN, seg |-> -1]
        ELSE IF bs.val >= 0 THEN [err |-> "", val |-> At(yv2, bs.val), seg |-> bs.val]
        ELSE LET i == -bs.val - 1
             IN  IF i = 0 THEN [err |-> "", val |-> At(yv2, 0), seg |-> 0]
                 ELSE IF i >= n THEN [err |-> "", val |-> At(yv2, n - 1), seg |-> n - 1]
                 ELSE LET d == Sub(x, At(xv2, i - 1))
                          w == Sub(At(xv2, i), At(xv2, i - 1))
                      IN  IF Le(Add(d, d), w)
                          THEN [err |-> "", val |-> At(yv2, i - 1), seg |-> i - 1]
                          ELSE [err |-> "", val |-> At(yv2, i), seg |-> i]

\* The function returned for n >= 2, at x, over the current contents of the
\* two arrays it holds.
nearestNeighbor(xv2, yv2, n, x) ==
    LET bs == binarySearch(xv2, x)
    IN  IF bs.err # "" THEN [err |-> bs.err, val |-> NaN, seg |-> -1]
        ELSE IF bs.val >= 0 THEN [err |-> "", val |-> At(yv2, bs.val), seg |-> bs.val]
        ELSE LET i == -bs.val - 1
             IN  IF i = 0 THEN [err |-> "", val |-> At(yv2, 0), seg |-> 0]
                 ELSE IF i >= n THEN [err |-> "", val |-> At(yv2, n - 1), seg |-> n - 1]
                 ELSE LET d == Sub(x, At(xv2, i - 1))
                          w == Sub(At(xv2, i), At(xv2, i - 1))
                      IN  IF Lt(Add(d, d), w)
                          THEN [err |-> "", val |-> At(yv2, i - 1), seg |-> i - 1]
                          ELSE [err |-> "", val |-> At(yv2, i), seg |-> i]

----------------------------------------------------------------------------
(* Loess.ts                                                                *)
(*                                                                         *)
(* Parameters.  The parameter object is a record; an optional field that   *)
(* the caller left out holds Undefined (weights and diagInfo: a record     *)
(* with defined = FALSE, interpolationMethod: "undefined").  accuracy is a *)
(* power of ten, PowerOfTen(k) = 10^-k, so that the default 1E-12 and its  *)
(* square are exact.                                                       *)
(*                                                                         *)
(* Kernel weights.  calculateLocalLinearRegression weighs the point at     *)
(* distance dist by triCube(dist / maxDist), maxDist being 1.001 times the *)
(* distance of the farther end of the window.  A point at the evaluation x *)
(* has kernel weight 1 and a point as far as the farther end has           *)
(*     K = triCube(1000/1001) = (1 - (1000/1001)^3)^3,                     *)
(* a number between 2^-26 and 2^-25 whose denominator, 1001^9, has 28      *)
(* digits.  The regression is computed with K kept as a symbol: its values *)
(* are quotients p(K) / w(K)^m of polynomials with rational coefficients,  *)
(* w being the sumWeights of the regression.  K is a root of no polynomial *)
(* with integer coefficients smaller than 1001^9, so a value computed here *)
(* is a number exactly when p is a multiple of w^m.  Magnitudes are        *)
(* decided from 2^-26 < K < 2^-25.  A point at any third distance, a       *)
(* magnitude these bounds do not decide and a result that still depends on *)
(* K have no representation: the regression then yields Unrepresentable,   *)
(* smooth reports the pseudo error "Unrepresentable", and the actions call *)
(* smooth only where it does not.                                          *)

\* n <= TrivialPoints: smooth returns a copy of yVals.
TrivialPoints == 2

\* The number 10^-k (k >= 0).
PowerOfTen(k) == <<1, 10, k>>
\* smooth's defaults: bandwidthFraction 0.3, robustnessIters 2, accuracy
\* 1E-12, outlierDistanceFactor 6.
DefaultBandwidthFraction == Rat(3, 10)
DefaultRobustnessIters == NumOf(2)
DefaultAccuracyDigits == 12
DefaultOutlierDistanceFactor == NumOf(6)
\* The threshold 1E-12 of sumWeights in calculateLocalLinearRegression.
SumWeightsDigits == 12

\* An optional array: undefined, or the array a.
NoWeights == [defined |-> FALSE, val |-> <<>>]
Weights(a) == [defined |-> TRUE, val |-> a]

\* An optional diagInfo object and its fields.
NoDiagInfo ==
    [defined |-> FALSE, robustnessIters |-> Undefined,
     secondLastMedianResidual |-> Undefined, lastMedianResidual |-> Undefined,
     robustnessWeights |-> NoWeights, fitYVals |-> NoWeights,
     knotFilter |-> <<>>, knotXVals |-> NoWeights, knotYVals |-> NoWeights]
EmptyDiagInfo == [NoDiagInfo EXCEPT !.defined = TRUE]

\* The parameter object {xVals, yVals}: every optional field left out.
DefaultParms ==
    [weights |-> NoWeights, bandwidthFraction |-> Undefined,
     robustnessIters |-> Undefined, accuracy |-> Undefined,
     outlierDistanceFactor |-> Undefined, minXDistance |-> Undefined,
     interpolationMethod |-> "undefined", diagInfo |-> NoDiagInfo]

\* A destructuring default: v unless v is undefined.
OrDefault(v, dflt) == IF v = Undefined THEN dflt ELSE v

\* m \div 10^k for m >= 0.
RECURSIVE DivPowerOfTen(_, _)
DivPowerOfTen(m, k) == IF k = 0 \/ m = 0 THEN m ELSE DivPowerOfTen(m \div 10, k - 1)

\* a < 10^-k for a number a: n/d < 10^-k iff n * 10^k < d.
LtPowerOfTen(a, k) ==
    IF isNaN(a) THEN FALSE
    ELSE IF IsInf(a) THEN a = NInf
    ELSE a[1] <= DivPowerOfTen(a[2] - 1, k)

\* 2^k (k >= 0).
RECURSIVE PowerOfTwo(_)
PowerOfTwo(k) == IF k = 0 THEN 1 ELSE 2 * PowerOfTwo(k - 1)

\* Polynomials in K with rational coefficients: the sequence of the
\* coefficients of K^0, K^1, ..., the last one not zero; <<>> is zero.
RECURSIVE PTrim(_)
PTrim(p) ==
    IF p # <<>> /\ p[Len(p)] = NumOf(0) THEN PTrim(SubSeq(p, 1, Len(p) - 1)) ELSE p

PCoef(p, i) == IF i >= 1 /\ i <= Len(p) THEN p[i] ELSE NumOf(0)

PAdd(a, b) == PTrim([i \in 1..MaxI(Len(a), Len(b)) |-> Add(PCoef(a, i), PCoef(b, i))])

PScale(c, a) == PTrim([i \in 1..Len(a) |-> Mul(c, a[i])])

RECURSIVE PMulCoef(_, _, _, _)
PMulCoef(a, b, k, i) ==
    IF i > Len(a) \/ i > k THEN NumOf(0)
    ELSE IF k + 1 - i > Len(b) THEN PMulCoef(a, b, k, i + 1)
    ELSE Add(Mul(a[i], b[k + 1 - i]), PMulCoef(a, b, k, i + 1))

PMul(a, b) ==
    IF a = <<>> \/ b = <<>> THEN <<>>
    ELSE IF Len(b) = 1 THEN PScale(b[1], a)
    ELSE IF Len(a) = 1 THEN PScale(a[1], b)
    ELSE [k \in 1..(Len(a) + Len(b) - 1) |-> PMulCoef(a, b, k, 1)]

\* a^m
RECURSIVE PPower(_, _)
PPower(a, m) == IF m = 0 THEN <<NumOf(1)>> ELSE PMul(a, PPower(a, m - 1))

\* a = c * b for a number c, b not zero; and that c.
Proportional(a, b) ==
    a = <<>> \/ (/\ Len(a) = Len(b)
                 /\ \A i \in 1..Len(a) : Mul(a[i], b[Len(b)]) = Mul(b[i], a[Len(a)]))

Proportion(a, b) == IF a = <<>> THEN NumOf(0) ELSE Div(a[Len(a)], b[Len(b)])

\* The index of the lowest non-zero coefficient of p # 0.
RECURSIVE PLow(_, _)
PLow(p, i) == IF p[i] # NumOf(0) THEN i ELSE PLow(p, i + 1)

\* The sum of the absolute values of the coefficients above index i.
RECURSIVE PAbsAbove(_, _)
PAbsAbove(p, i) ==
    IF i >= Len(p) THEN NumOf(0) ELSE Add(MathAbs(p[i + 1]), PAbsAbove(p, i + 1))

\* DominanceBits: the lowest term of p dominates when the higher
\* coefficients sum to at most 2^DominanceBits times it; as K < 2^-25, the
\* value of p at K is then its lowest term times a factor within
\* 1 -+ 2^-10.  A quotient of such a value by a power up to the fourth of
\* another is the quotient of the lowest terms times a factor between 1/2
\* and 2.
DominanceBits == 15
KernelLowBits == 26
KernelHighBits == 25

\* a >= 2^z for a finite number a > 0 and any integer z.
GePowerOfTwo(a, z) ==
    IF z >= 31 THEN FALSE
    ELSE IF z <= -31 THEN TRUE
    ELSE IF z >= 0 THEN a[1] \div PowerOfTwo(z) >= a[2]
    ELSE a[1] >= ((a[2] - 1) \div PowerOfTwo(-z)) + 1

\* a <= 2^z for a finite number a > 0 and any integer z.
LePowerOfTwo(a, z) ==
    IF z >= 31 THEN TRUE
    ELSE IF z <= -31 THEN FALSE
    ELSE IF z >= 0 THEN ((a[1] - 1) \div PowerOfTwo(z)) + 1 <= a[2]
    ELSE a[1] <= a[2] \div PowerOfTwo(-z)

PDominated(p) ==
    LET j == PLow(p, 1)
        above == PAbsAbove(p, j)
    IN  above = NumOf(0) \/ LePowerOfTwo(Div(above, MathAbs(p[j])), DominanceBits)

\* The values of one regression: [kind, p, w, m], kind "fin" for the value
\* p(K) / w(K)^m of two polynomials (w = 1 when m = 0), "nan" for NaN,
\* "none" for no representation.  The only polynomial the regression
\* divides by, other than a multiple of the dividend, is its sumWeights:
\* w is that polynomial.
KFin(p, w, m) == [kind |-> "fin", p |-> p, w |-> IF m = 0 THEN <<NumOf(1)>> ELSE w, m |-> m]
KNaN == [kind |-> "nan", p |-> <<>>, w |-> <<>>, m |-> 0]
KNone == [kind |-> "none", p |-> <<>>, w |-> <<>>, m |-> 0]
\* The kernel weight K itself.
KSymbol == KFin(<<NumOf(0), NumOf(1)>>, <<>>, 0)

\* The number a as such a value.  Infinities do not reach the regression:
\* the arrays were checked and biWeight returns no infinity.
KOf(a) ==
    IF isNaN(a) THEN KNaN
    ELSE IF ~IsFin(a) THEN KNone
    ELSE KFin(PTrim(<<a>>), <<>>, 0)

\* Two values can be combined when they are over the same w.
SameW(v, w) == v.m = 0 \/ w.m = 0 \/ v.w = w.w
CommonW(v, w) == IF v.m = 0 THEN w.w ELSE v.w

KAdd(v, w) ==
    IF v.kind = "none" \/ w.kind = "none" THEN KNone
    ELSE IF v.kind = "nan" \/ w.kind = "nan" THEN KNaN
    ELSE IF ~SameW(v, w) THEN KNone
    ELSE IF v.m = w.m THEN KFin(PAdd(v.p, w.p), v.w, v.m)
    ELSE IF v.m < w.m THEN KFin(PAdd(PMul(v.p, PPower(w.w, w.m - v.m)), w.p), w.w, w.m)
    ELSE KFin(PAdd(v.p, PMul(w.p, PPower(v.w, v.m - w.m))), v.w, v.m)

KNeg(v) == IF v.kind = "fin" THEN [v EXCEPT !.p = PScale(NumOf(-1), v.p)] ELSE v

KSub(v, w) == KAdd(v, KNeg(w))

KMul(v, w) ==
    IF v.kind = "none" \/ w.kind = "none" THEN KNone
    ELSE IF v.kind = "nan" \/ w.kind = "nan" THEN KNaN
    ELSE IF ~SameW(v, w) THEN KNone
    ELSE KFin(PMul(v.p, w.p), CommonW(v, w), v.m + w.m)

\* v / w: by a multiple of the dividend, by a number, or by the polynomial
\* w of the dividend; a division by zero (an infinity) and any other
\* division have no representation.
KDiv(v, w) ==
    IF v.kind = "none" \/ w.kind = "none" THEN KNone
    ELSE IF v.kind = "nan" \/ w.kind = "nan" THEN KNaN
    ELSE IF w.p = <<>> \/ ~SameW(v, w) THEN KNone
    ELSE IF Proportional(v.p, w.p)
         THEN (IF w.m >= v.m
               THEN KFin(PScale(Proportion(v.p, w.p), PPower(CommonW(v, w), w.m - v.m)),
                         <<>>, 0)
               ELSE KFin(PTrim(<<Proportion(v.p, w.p)>>), v.w, v.m - w.m))
    ELSE IF w.m = 0 /\ Len(w.p) = 1
         THEN KFin(PScale(Div(NumOf(1), w.p[1]), v.p), v.w, v.m)
    ELSE IF w.m = 0 /\ (v.m = 0 \/ v.w = w.p) THEN KFin(v.p, w.p, v.m + 1)
    ELSE KNone

\* The value as a number: Unrepresentable when it depends on K.
Unrepresentable == <<3, 0>>
KToNumber(v) ==
    IF v.kind = "nan" THEN NaN
    ELSE IF v.kind # "fin" THEN Unrepresentable
    ELSE IF v.m = 0 THEN (IF Len(v.p) <= 1 THEN PCoef(v.p, 1) ELSE Unrepresentable)
    ELSE IF Proportional(v.p, PPower(v.w, v.m)) THEN Proportion(v.p, PPower(v.w, v.m))
    ELSE Unrepresentable

\* 2^-PowerOfTenLowBits(k) <= 10^-k <= 2^-PowerOfTenHighBits(k), from
\* 2^3 < 10 < 2^(10/3).
PowerOfTenHighBits(k) == 3 * k
PowerOfTenLowBits(k) == (10 * k + 2) \div 3

\* The sign of a value: -1, 0, 1, or 2 when it is not decided.
KSign(v) ==
    IF v.kind # "fin" THEN 2
    ELSE IF v.p = <<>> THEN 0
    ELSE IF ~(PDominated(v.p) /\ PDominated(v.w)) THEN 2
    ELSE IF v.m % 2 = 0 THEN Sign(v.p[PLow(v.p, 1)])
    ELSE Sign(v.p[PLow(v.p, 1)]) * Sign(v.w[PLow(v.w, 1)])

\* c^m for a number c.
RECURSIVE NumPower(_, _)
NumPower(c, m) == IF m = 0 THEN NumOf(1) ELSE Mul(c, NumPower(c, m - 1))

\* |v| < 10^-k for a value v # 0: "yes", "no", or "unknown" when the
\* bounds of K do not decide it.
KMagnitudeBelow(v, k) ==
    IF KToNumber(v) # Unrepresentable
    THEN (IF LtPowerOfTen(MathAbs(KToNumber(v)), k) THEN "yes" ELSE "no")
    ELSE IF v.m > 4 \/ ~(PDominated(v.p) /\ PDominated(v.w)) THEN "unknown"
    ELSE LET jp == PLow(v.p, 1)
             jw == PLow(v.w, 1)
             e == (jp - 1) - v.m * (jw - 1)
             c == MathAbs(Div(v.p[jp], NumPower(v.w[jw], v.m)))
             lowBits == IF e >= 0 THEN -KernelLowBits * e - 1 ELSE -KernelHighBits * e - 1
             highBits == IF e >= 0 THEN -KernelHighBits * e + 1 ELSE -KernelLowBits * e + 1
         IN  IF GePowerOfTwo(c, -PowerOfTenHighBits(k) - lowBits) THEN "no"
             ELSE IF LePowerOfTwo(c, -PowerOfTenLowBits(k) - highBits) THEN "yes"
             ELSE "unknown"

\* v < 10^-k
KLtPowerOfTen(v, k) ==
    IF v.kind = "nan" THEN "no"
    ELSE IF KSign(v) = 2 THEN "unknown"
    ELSE IF KSign(v) <= 0 THEN "yes"
    ELSE KMagnitudeBelow(v, k)

\* Math.abs(v) < 10^-k
KAbsLtPowerOfTen(v, k) ==
    IF v.kind = "nan" THEN "no"
    ELSE IF v.kind = "none" THEN "unknown"
    ELSE IF v.p = <<>> THEN "yes"
    ELSE KMagnitudeBelow(v, k)

\* Math.max(a, b) and Math.min(a, b) on numbers.
MathMax(a, b) == IF isNaN(a) \/ isNaN(b) THEN NaN ELSE IF Ge(a, b) THEN a ELSE b
MathMin(a, b) == IF isNaN(a) \/ isNaN(b) THEN NaN ELSE IF Le(a, b) THEN a ELSE b

\* Math.round(a): the integer nearest to a, halves upwards.
MathRound(a) == IF ~IsFin(a) THEN (IF isNaN(a) THEN NaN ELSE a) ELSE NumOf((2 * a[1] + a[2]) \div (2 * a[2]))

\* triCube(x), for the x the field represents.
triCube(x) ==
    IF isNaN(x) THEN KNaN
    ELSE IF Ge(MathAbs(x), NumOf(1)) THEN KOf(NumOf(0))
    ELSE IF x = NumOf(0) THEN KOf(NumOf(1))
    ELSE IF MathAbs(x) = Rat(1000, 1001) THEN KSymbol
    ELSE KNone

\* A slip: the comparison with 1 is turned round.
biWeightInverted(x) ==
    LET absX == MathAbs(x)
        tmp == Sub(NumOf(1), Mul(absX, absX))
    IN  IF Le(absX, NumOf(1)) THEN NumOf(0)
        ELSE IF absX[2] > 215 THEN Unrepresentable
        ELSE Mul(tmp, tmp)

\* biWeight(x).  The result has the fourth power of x's denominator as its
\* denominator: beyond 215^4 < 2^31 it has no representation.
biWeight(x) ==
    LET absX == MathAbs(x)
        tmp == Sub(NumOf(1), Mul(absX, absX))
    IN  IF Ge(absX, NumOf(1)) THEN NumOf(0)
        ELSE IF absX[2] > 215 THEN Unrepresentable
        ELSE Mul(tmp, tmp)

\* findNonZero(a, startPos)
RECURSIVE findNonZeroLoop(_, _)
findNonZeroLoop(a, i) ==
    IF i < Len(a) /\ EqNum(At(a, i), NumOf(0)) THEN findNonZeroLoop(a, i + 1) ELSE i

findNonZero(a, startPos) == IF ~a.defined THEN startPos ELSE findNonZeroLoop(a.val, startPos)

\* countNonZeros(a)
RECURSIVE countNonZerosLoop(_, _, _)
countNonZerosLoop(a, i, cnt) ==
    IF i < Len(a)
    THEN countNonZerosLoop(a, i + 1, IF ~EqNum(At(a, i), NumOf(0)) THEN cnt + 1 ELSE cnt)
    ELSE cnt

countNonZeros(a) == countNonZerosLoop(a, 0, 0)

\* absDiff(a1, a2)
absDiff(a1, a2) == [i \in 1..Len(a1) |-> MathAbs(Sub(a1[i], At(a2, i - 1)))]

\* combineWeights(w1, w2)
combineWeights(w1, w2) ==
    IF ~w1.defined \/ ~w2.defined THEN (IF w1.defined THEN w1 ELSE w2)
    ELSE Weights([i \in 1..Len(w1.val) |-> Mul(w1.val[i], At(w2.val, i - 1))])

\* calculateRobustnessWeights(residuals, outlierDistance)
calculateRobustnessWeights(residuals, outlierDistance) ==
    [i \in 1..Len(residuals) |-> biWeight(Div(residuals[i], outlierDistance))]

\* a2.sort() of a Float64Array: ascending, NaN last.
SortsBefore(a, b) == IF isNaN(a) THEN FALSE ELSE IF isNaN(b) THEN TRUE ELSE Lt(a, b)

RECURSIVE InsertSorted(_, _)
InsertSorted(a, v) ==
    IF a = <<>> THEN <<v>>
    ELSE IF SortsBefore(v, a[1]) THEN <<v>> \o a
    ELSE <<a[1]>> \o InsertSorted(Tail(a), v)

RECURSIVE SortNumbers(_)
SortNumbers(a) == IF a = <<>> THEN <<>> ELSE InsertSorted(SortNumbers(Tail(a)), a[1])

\* getMedian(a) of Utils.ts
getMedian(a) ==
    LET n == Len(a)
        a2 == SortNumbers(a)
        m == n \div 2
    IN  IF n < 1 THEN NaN
        ELSE IF n % 2 = 0 THEN Div(Add(At(a2, m - 1), At(a2, m)), NumOf(2))
        ELSE At(a2, m)

\* Only(S) is the element of a one-element set: Only({e(v) : v \in {d}})
\* is e(d) with d computed once, as a local constant of the code is.
Only(S) == CHOOSE v \in S : TRUE

\* The five weighted sums of calculateLocalLinearRegression over the points
\* k..iRight, added to sums.  A zero weight times a kernel weight is zero
\* whatever the kernel weight, which is always finite.
RECURSIVE regressionSums(_, _, _, _, _, _, _, _)
regressionSums(xv, yv, weights, x, maxDist, k, iRight, sums) ==
    IF k > iRight THEN sums
    ELSE LET xk == At(xv, k)
             yk == At(yv, k)
             dist == MathAbs(Sub(xk, x))
             w1 == IF weights.defined THEN At(weights.val, k) ELSE NumOf(1)
             w2 == triCube(Div(dist, maxDist))
             w == IF w1 = NumOf(0) /\ w2.kind = "none" THEN KOf(NumOf(0))
                  ELSE KMul(KOf(w1), w2)
             xkw == KMul(KOf(xk), w)
         IN  regressionSums(xv, yv, weights, x, maxDist, k + 1, iRight,
                            [sumWeights  |-> KAdd(sums.sumWeights, w),
                             sumX        |-> KAdd(sums.sumX, xkw),
                             sumXSquared |-> KAdd(sums.sumXSquared, KMul(KOf(xk), xkw)),
                             sumY        |-> KAdd(sums.sumY, KMul(KOf(yk), w)),
                             sumXY       |-> KAdd(sums.sumXY, KMul(KOf(yk), xkw))])

ZeroSums ==
    [sumWeights |-> KOf(NumOf(0)), sumX |-> KOf(NumOf(0)), sumXSquared |-> KOf(NumOf(0)),
     sumY |-> KOf(NumOf(0)), sumXY |-> KOf(NumOf(0))]

\* calculateLocalLinearRegression(...): [err, val], accuracy being
\* 10^-accuracyDigits.
calculateLocalLinearRegression(xv, yv, weights, x, iLeft, iRight, accuracyDigits) ==
    LET maxDist0 == Mul(MathMax(Sub(x, At(xv, iLeft)), Sub(At(xv, iRight), x)), Rat(1001, 1000))
        maxDist == IF EqNum(maxDist0, NumOf(0)) THEN NumOf(1) ELSE maxDist0
        WithBeta(meanX, meanY, beta) ==
            [err |-> "",
             val |-> KToNumber(KSub(KAdd(meanY, KMul(beta, KOf(x))), KMul(beta, meanX)))]
        WithFlat(meanX, meanY, meanXY, meanXSqrDiff, flat) ==
            IF flat = "unknown" THEN [err |-> "", val |-> Unrepresentable]
            ELSE Only({WithBeta(meanX, meanY, beta) :
                       beta \in {IF flat = "yes" THEN KOf(NumOf(0))
                                 ELSE KDiv(KSub(meanXY, KMul(meanX, meanY)), meanXSqrDiff)}})
        WithDiff(meanX, meanY, meanXY, meanXSqrDiff) ==
            Only({WithFlat(meanX, meanY, meanXY, meanXSqrDiff, flat) :
                  flat \in {KAbsLtPowerOfTen(meanXSqrDiff, 2 * accuracyDigits)}})
        WithMeans(meanX, meanY, meanXY, meanXSquared) ==
            Only({WithDiff(meanX, meanY, meanXY, meanXSqrDiff) :
                  meanXSqrDiff \in {KSub(meanXSquared, KMul(meanX, meanX))}})
        WithSums(sums, tiny) ==
            IF tiny = "unknown" THEN [err |-> "", val |-> Unrepresentable]
            ELSE IF tiny = "yes" THEN [err |-> "", val |-> NaN]
            ELSE Only({WithMeans(meanX, meanY, meanXY, meanXSquared) :
                       meanX \in {KDiv(sums.sumX, sums.sumWeights)},
                       meanY \in {KDiv(sums.sumY, sums.sumWeights)},
                       meanXY \in {KDiv(sums.sumXY, sums.sumWeights)},
                       meanXSquared \in {KDiv(sums.sumXSquared, sums.sumWeights)}})
    IN  IF Lt(maxDist0, NumOf(0)) THEN [err |-> "InconsistentBandwidth", val |-> NaN]
        ELSE Only({Only({WithSums(sums, tiny) :
                         tiny \in {KLtPowerOfTen(sums.sumWeights, SumWeightsDigits)}}) :
                   sums \in {regressionSums(xv, yv, weights, x, maxDist, iLeft, iRight,
                                            ZeroSums)}})

\* findInitialBandwidthInterval(weights, bandwidthInPoints, n):
\* [err, iLeft, iRight].
RECURSIVE findInitialBandwidthLoop(_, _, _, _, _)
\* A slip: the loop runs while i < bandwidthInPoints.
RECURSIVE findInitialBandwidthLoopOneMore(_, _, _, _, _)
findInitialBandwidthLoopOneMore(weights, bandwidthInPoints, n, i, bw) ==
    IF Lt(NumOf(i), bandwidthInPoints)
    THEN LET iRight == findNonZero(weights, bw.iRight + 1)
         IN  IF iRight >= n THEN [bw EXCEPT !.err = "BandwidthEndNotFound", !.iRight = iRight]
             ELSE findInitialBandwidthLoopOneMore(weights, bandwidthInPoints, n, i + 1,
                                                  [bw EXCEPT !.iRight = iRight])
    ELSE bw

findInitialBandwidthLoop(weights, bandwidthInPoints, n, i, bw) ==
    IF Lt(NumOf(i), Sub(bandwidthInPoints, NumOf(1)))
    THEN LET iRight == findNonZero(weights, bw.iRight + 1)
         IN  IF iRight >= n THEN [bw EXCEPT !.err = "BandwidthEndNotFound", !.iRight = iRight]
             ELSE findInitialBandwidthLoop(weights, bandwidthInPoints, n, i + 1,
                                           [bw EXCEPT !.iRight = iRight])
    ELSE bw

findInitialBandwidthInterval(weights, bandwidthInPoints, n) ==
    LET iLeft == findNonZero(weights, 0)
    IN  IF iLeft >= n THEN [err |-> "BandwidthStartNotFound", iLeft |-> iLeft, iRight |-> iLeft]
        ELSE findInitialBandwidthLoop(weights, bandwidthInPoints, n, 0,
                                      [err |-> "", iLeft |-> iLeft, iRight |-> iLeft])

\* moveBandwidthInterval(bw, x, xVals, weights): bw after the call.
RECURSIVE moveBandwidthInterval(_, _, _, _)
moveBandwidthInterval(bw, x, xv, weights) ==
    LET n == Len(xv)
        nextRight == findNonZero(weights, bw.iRight + 1)
    IN  IF nextRight >= n \/ Ge(Sub(At(xv, nextRight), x), Sub(x, At(xv, bw.iLeft)))
        THEN bw
        ELSE moveBandwidthInterval([bw EXCEPT !.iLeft = findNonZero(weights, bw.iLeft + 1),
                                              !.iRight = nextRight],
                                   x, xv, weights)

\* moveBandwidthInterval one step at a time.  A slip: the left end stays
\* where it is.
moveBandwidthShiftRightOnly(bw, weights) ==
    [bw EXCEPT !.iRight = findNonZero(weights, bw.iRight + 1)]

\* Lines 237 and 238: one pass through the loop body.
moveBandwidthShift(bw, weights) ==
    [bw EXCEPT !.iLeft = findNonZero(weights, bw.iLeft + 1),
               !.iRight = findNonZero(weights, bw.iRight + 1)]

\* A slip: the candidate is compared with the right end of the window.
moveBandwidthStopsByRightEnd(bw, x, xv, weights) ==
    LET nextRight == findNonZero(weights, bw.iRight + 1)
    IN  nextRight >= Len(xv) \/ Ge(Sub(At(xv, nextRight), x), Sub(x, At(xv, bw.iRight)))

\* Lines 233 to 236: the loop is left.
moveBandwidthStops(bw, x, xv, weights) ==
    LET nextRight == findNonZero(weights, bw.iRight + 1)
    IN  nextRight >= Len(xv) \/ Ge(Sub(At(xv, nextRight), x), Sub(x, At(xv, bw.iLeft)))

\* A slip: xVals[nextRight] is read before nextRight is compared with n.
moveBandwidthReadsUnguarded(bw, xv, weights) ==
    {findNonZero(weights, bw.iRight + 1), bw.iLeft}

\* The indices of xVals that line 234 reads.
moveBandwidthReads(bw, xv, weights) ==
    LET nextRight == findNonZero(weights, bw.iRight + 1)
    IN  IF nextRight >= Len(xv) THEN {} ELSE {nextRight, bw.iLeft}

\* Lines 148 to 154 of calculateSequenceRegression: [err, n2,
\* bandwidthInPoints, bw], bw being the initial window.
sequenceRegressionStart(xv, weights, bandwidthFraction) ==
    LET WithInterval(n2, bandwidthInPoints, bw) ==
            [err |-> bw.err, n2 |-> n2, bandwidthInPoints |-> bandwidthInPoints, bw |-> bw]
        WithBandwidth(n2, bandwidthInPoints) ==
            Only({WithInterval(n2, bandwidthInPoints, bw) :
                  bw \in {findInitialBandwidthInterval(weights, bandwidthInPoints, Len(xv))}})
        WithProduct(n2, product) ==
            Only({Only({Only({WithBandwidth(n2, b) : b \in {MathMax(NumOf(2), least)}}) :
                        least \in {MathMin(NumOf(n2), rounded)}}) :
                  rounded \in {MathRound(product)}})
        WithCount(n2) ==
            IF n2 < 2
            THEN [err |-> "InsufficientPoints", n2 |-> n2, bandwidthInPoints |-> NaN,
                  bw |-> [err |-> "", iLeft |-> 0, iRight |-> 0]]
            ELSE Only({WithProduct(n2, product) :
                       product \in {Mul(NumOf(n2), bandwidthFraction)}})
    IN  Only({WithCount(n2) :
              n2 \in {IF weights.defined THEN countNonZeros(weights.val) ELSE Len(xv)}})

\* A slip: the factor 1.001 is left out.
localMaxDistNoMargin(xv, x, iLeft, iRight) ==
    Only({MathMax(toLeft, toRight) :
          toLeft \in {Sub(x, At(xv, iLeft))}, toRight \in {Sub(At(xv, iRight), x)}})

\* Line 167 of calculateLocalLinearRegression: maxDist before the test for 0.
localMaxDist(xv, x, iLeft, iRight) ==
    Only({Only({Mul(wider, factor) : wider \in {MathMax(toLeft, toRight)}}) :
          toLeft \in {Sub(x, At(xv, iLeft))}, toRight \in {Sub(At(xv, iRight), x)},
          factor \in {Rat(1001, 1000)}})

\* The loop of calculateSequenceRegression from point i on: [err, fit,
\* windows], windows[i + 1] being the window used for point i.
RECURSIVE sequenceRegressionLoop(_, _, _, _, _, _, _, _)
sequenceRegressionLoop(xv, yv, weights, accuracyDigits, i, bw, fit, windows) ==
    IF i < Len(xv)
    THEN LET x == At(xv, i)
             WithLocal(bw2, local) ==
                 IF local.err # ""
                 THEN [err |-> local.err, fit |-> fit, windows |-> Append(windows, bw2)]
                 ELSE IF local.val = Unrepresentable
                 THEN [err |-> "Unrepresentable", fit |-> fit,
                       windows |-> Append(windows, bw2)]
                 ELSE sequenceRegressionLoop(xv, yv, weights, accuracyDigits, i + 1, bw2,
                                             Append(fit, local.val), Append(windows, bw2))
         IN  Only({Only({WithLocal(bw2, local) :
                         local \in {calculateLocalLinearRegression(
                                        xv, yv, weights, x, bw2.iLeft, bw2.iRight,
                                        accuracyDigits)}}) :
                   bw2 \in {moveBandwidthInterval(bw, x, xv, weights)}})
    ELSE [err |-> "", fit |-> fit, windows |-> windows]

\* A slip: one relevant point is taken to be enough.
calculateSequenceRegressionMin1(xv, yv, weights, bandwidthFraction, accuracyDigits, iter) ==
    LET n == Len(xv)
        n2 == IF weights.defined THEN countNonZeros(weights.val) ELSE n
        bandwidthInPoints ==
            MathMax(NumOf(2), MathMin(NumOf(n2), MathRound(Mul(NumOf(n2), bandwidthFraction))))
        bw == findInitialBandwidthInterval(weights, bandwidthInPoints, n)
    IN  IF n2 < 1
        THEN [err |-> "InsufficientPoints", fit |-> <<>>, windows |-> <<>>, n2 |-> n2,
              bandwidthInPoints |-> NaN]
        ELSE IF bw.err # ""
        THEN [err |-> bw.err, fit |-> <<>>, windows |-> <<>>, n2 |-> n2,
              bandwidthInPoints |-> bandwidthInPoints]
        ELSE Only({[err |-> run.err, fit |-> run.fit, windows |-> run.windows, n2 |-> n2,
                    bandwidthInPoints |-> bandwidthInPoints] :
                   run \in {sequenceRegressionLoop(xv, yv, weights, accuracyDigits, 0, bw,
                                                   <<>>, <<>>)}})

\* calculateSequenceRegression(...): [err, fit, windows, n2,
\* bandwidthInPoints]; err "InsufficientPoints" is "Not enough relevant
\* points in iteration ${iter}.".
calculateSequenceRegression(xv, yv, weights, bandwidthFraction, accuracyDigits, iter) ==
    LET n == Len(xv)
        n2 == IF weights.defined THEN countNonZeros(weights.val) ELSE n
        bandwidthInPoints ==
            MathMax(NumOf(2), MathMin(NumOf(n2), MathRound(Mul(NumOf(n2), bandwidthFraction))))
        bw == findInitialBandwidthInterval(weights, bandwidthInPoints, n)
    IN  IF n2 < 2
        THEN [err |-> "InsufficientPoints", fit |-> <<>>, windows |-> <<>>, n2 |-> n2,
              bandwidthInPoints |-> NaN]
        ELSE IF bw.err # ""
        THEN [err |-> bw.err, fit |-> <<>>, windows |-> <<>>, n2 |-> n2,
              bandwidthInPoints |-> bandwidthInPoints]
        ELSE Only({[err |-> run.err, fit |-> run.fit, windows |-> run.windows, n2 |-> n2,
                    bandwidthInPoints |-> bandwidthInPoints] :
                   run \in {sequenceRegressionLoop(xv, yv, weights, accuracyDigits, 0, bw,
                                                   <<>>, <<>>)}})

getDefaultMinXDistance(xv) ==
    LET n == Len(xv)
        xRange == Sub(At(xv, n - 1), At(xv, 0))
    IN  IF n = 0 THEN NaN
        ELSE IF EqNum(xRange, NumOf(0)) THEN NumOf(1)
        ELSE Div(xRange, NumOf(100))

\* A slip: the validation is skipped for the arrays smooth returns as they
\* are.
smoothValidationAfterTrivial(xv, yv, weights) ==
    IF Len(xv) <= TrivialPoints THEN ""
    ELSE IF checkMonotonicallyIncreasing(xv) # "" THEN checkMonotonicallyIncreasing(xv)
    ELSE IF checkFinite(yv) # "" THEN checkFinite(yv)
    ELSE IF weights.defined /\ checkFinite(weights.val) # "" THEN checkFinite(weights.val)
    ELSE IF Len(yv) # Len(xv) \/ (weights.defined /\ Len(weights.val) # Len(xv))
         THEN "DimensionMismatch"
    ELSE ""

\* The error smooth's validation throws, or "".
smoothValidation(xv, yv, weights) ==
    IF checkMonotonicallyIncreasing(xv) # "" THEN checkMonotonicallyIncreasing(xv)
    ELSE IF checkFinite(yv) # "" THEN checkFinite(yv)
    ELSE IF weights.defined /\ checkFinite(weights.val) # "" THEN checkFinite(weights.val)
    ELSE IF Len(yv) # Len(xv) \/ (weights.defined /\ Len(weights.val) # Len(xv))
         THEN "DimensionMismatch"
    ELSE ""

\* smooth reaches its regression passes.
RunsRegression(xv, yv) == smoothValidation(xv, yv, NoWeights) = "" /\ Len(xv) > TrivialPoints

\* The digits k of the accuracy 10^-k smooth works with.
AccuracyDigits(p) == IF p.accuracy = Undefined THEN DefaultAccuracyDigits ELSE p.accuracy[3]

\* What smooth returns: the error thrown (and the iteration that threw
\* it) or the fit, an array object fitArray whose contents are fit; the
\* diagnostics written; and, as history, one record per regression pass run:
\* its combined weights, its count of relevant points, its bandwidth, its
\* windows, its fit and the median residual that let it run.
SmoothResult(err, iter, fitArray, diag, passes) ==
    [err |-> err, kind |-> "fit", iter |-> iter, fit |-> fitArray.val, obj |-> fitArray.obj,
     diag |-> diag, passes |-> passes]

\* The for loop of smooth, from iteration iter on.  smoothLoop does the
\* part of an iteration before the regression and smoothPass the rest.
RECURSIVE smoothLoop(_, _, _, _, _, _, _)
smoothPass(xv, yv, p, iter, diag, passes, medianResidual, combinedWeights) ==
    LET bandwidthFraction == OrDefault(p.bandwidthFraction, DefaultBandwidthFraction)
    IN  Only({IF reg.err # ""
              THEN SmoothResult(reg.err, iter, NoArray, diag,
                                Append(passes, [weights |-> combinedWeights, n2 |-> reg.n2,
                                                bandwidthInPoints |-> reg.bandwidthInPoints,
                                                windows |-> reg.windows, fit |-> reg.fit,
                                                medianResidual |-> medianResidual]))
              ELSE smoothLoop(xv, yv, p, iter + 1, reg.fit, diag,
                              Append(passes, [weights |-> combinedWeights, n2 |-> reg.n2,
                                              bandwidthInPoints |-> reg.bandwidthInPoints,
                                              windows |-> reg.windows, fit |-> reg.fit,
                                              medianResidual |-> medianResidual])) :
              reg \in {calculateSequenceRegression(xv, yv, combinedWeights, bandwidthFraction,
                                                   AccuracyDigits(p), iter)}})

\* A slip: the loop runs while iter < robustnessIters.
smoothLoopOneLess(xv, yv, p, iter, fitYVals, diag, passes) ==
    LET robustnessIters == OrDefault(p.robustnessIters, DefaultRobustnessIters)
        outlierDistanceFactor == OrDefault(p.outlierDistanceFactor, DefaultOutlierDistanceFactor)
        residuals == absDiff(fitYVals, yv)
        medianResidual == getMedian(residuals)
        outlierDistance == Mul(medianResidual, outlierDistanceFactor)
    IN  IF ~Lt(NumOf(iter), robustnessIters)
        THEN SmoothResult("", iter, PrivateArray(fitYVals), diag, passes)
        ELSE IF iter = 0
        THEN smoothPass(xv, yv, p, iter, diag, passes, Undefined,
                        combineWeights(p.weights, NoWeights))
        ELSE IF LtPowerOfTen(medianResidual, AccuracyDigits(p))
        THEN SmoothResult("", iter, PrivateArray(fitYVals),
                          [diag EXCEPT !.lastMedianResidual = medianResidual], passes)
        ELSE Only({IF \E i \in 1..Len(rw) : rw[i] = Unrepresentable
                   THEN SmoothResult("Unrepresentable", iter, NoArray, diag, passes)
                   ELSE smoothPass(xv, yv, p, iter,
                                   [diag EXCEPT !.robustnessIters = NumOf(iter),
                                                !.secondLastMedianResidual = medianResidual,
                                                !.robustnessWeights = Weights(rw)],
                                   passes, medianResidual,
                                   combineWeights(p.weights, Weights(rw))) :
                   rw \in {calculateRobustnessWeights(residuals, outlierDistance)}})

smoothLoop(xv, yv, p, iter, fitYVals, diag, passes) ==
    LET robustnessIters == OrDefault(p.robustnessIters, DefaultRobustnessIters)
        outlierDistanceFactor == OrDefault(p.outlierDistanceFactor, DefaultOutlierDistanceFactor)
        residuals == absDiff(fitYVals, yv)
        medianResidual == getMedian(residuals)
        outlierDistance == Mul(medianResidual, outlierDistanceFactor)
    IN  IF ~Le(NumOf(iter), robustnessIters)
        THEN SmoothResult("", iter, PrivateArray(fitYVals), diag, passes)
        ELSE IF iter = 0
        THEN smoothPass(xv, yv, p, iter, diag, passes, Undefined,
                        combineWeights(p.weights, NoWeights))
        ELSE IF LtPowerOfTen(medianResidual, AccuracyDigits(p))
        THEN SmoothResult("", iter, PrivateArray(fitYVals),
                          [diag EXCEPT !.lastMedianResidual = medianResidual], passes)
        ELSE Only({IF \E i \in 1..Len(rw) : rw[i] = Unrepresentable
                   THEN SmoothResult("Unrepresentable", iter, NoArray, diag, passes)
                   ELSE smoothPass(xv, yv, p, iter,
                                   [diag EXCEPT !.robustnessIters = NumOf(iter),
                                                !.secondLastMedianResidual = medianResidual,
                                                !.robustnessWeights = Weights(rw)],
                                   passes, medianResidual,
                                   combineWeights(p.weights, Weights(rw))) :
                   rw \in {calculateRobustnessWeights(residuals, outlierDistance)}})

\* A slip: no return for the arrays of TrivialPoints or fewer points.
smoothNoTrivialCase(xv, yv, p) ==
    LET err == smoothValidation(xv, yv, p.weights)
        diag == [EmptyDiagInfo EXCEPT !.robustnessIters = NumOf(0)]
    IN  IF err # "" THEN SmoothResult(err, -1, NoArray, NoDiagInfo, <<>>)
        ELSE smoothLoop(xv, yv, p, 0, <<>>, diag, <<>>)

\* A slip: the loop runs to diagInfo.robustnessIters, which line 112 has
\* set to 0, when a diagInfo object is given.
smoothReadsDiagInfo(xv, yv, p) ==
    LET err == smoothValidation(xv, yv, p.weights)
        diag == [EmptyDiagInfo EXCEPT !.robustnessIters = NumOf(0)]
    IN  IF err # "" THEN SmoothResult(err, -1, NoArray, NoDiagInfo, <<>>)
        ELSE IF Len(xv) <= TrivialPoints
        THEN SmoothResult("", -1, Float64ArrayFrom(CallerArray("yVals", yv)), diag, <<>>)
        ELSE smoothLoop(xv, yv,
                        [p EXCEPT !.robustnessIters = IF p.diagInfo.defined THEN NumOf(0) ELSE @],
                        0, <<>>, diag, <<>>)

\* smooth(parms), parms being p with the arrays xv and yv.
smooth(xv, yv, p) ==
    LET err == smoothValidation(xv, yv, p.weights)
        diag == [EmptyDiagInfo EXCEPT !.robustnessIters = NumOf(0)]
    IN  IF err # "" THEN SmoothResult(err, -1, NoArray, NoDiagInfo, <<>>)
        ELSE IF Len(xv) <= TrivialPoints
        THEN SmoothResult("", -1, Float64ArrayFrom(CallerArray("yVals", yv)), diag, <<>>)
        ELSE smoothLoop(xv, yv, p, 0, <<>>, diag, <<>>)

\* smooth has a representation on these parameters.
Representable(xv, yv, p) == smooth(xv, yv, p).err # "Unrepresentable"

RECURSIVE createKnotFilterLoop(_, _, _, _, _, _)
createKnotFilterLoop(xv, fitYVals, minXDistance, i, prevX, filter) ==
    IF i < Len(xv)
    THEN LET x == At(xv, i)
             y == At(fitYVals, i)
         IN  IF Ge(Sub(x, prevX), minXDistance) /\ ~isNaN(y)
             THEN createKnotFilterLoop(xv, fitYVals, minXDistance, i + 1, x,
                                       Append(filter, TRUE))
             ELSE createKnotFilterLoop(xv, fitYVals, minXDistance, i + 1, prevX,
                                       Append(filter, FALSE))
    ELSE filter

createKnotFilter(xv, fitYVals, minXDistance) ==
    createKnotFilterLoop(xv, fitYVals, minXDistance, 0, NInf, <<>>)

RECURSIVE filterNumberArrayLoop(_, _, _, _)
filterNumberArrayLoop(a, filter, i, a2) ==
    IF i < Len(a)
    THEN filterNumberArrayLoop(a, filter, i + 1,
                               IF filter[i + 1] THEN Append(a2, At(a, i)) ELSE a2)
    ELSE a2

filterNumberArray(a, filter) == filterNumberArrayLoop(a, filter, 0, <<>>)

----------------------------------------------------------------------------
(* 64-bit floats.                                                          *)
(*                                                                         *)
(* The numbers of the program are IEEE 754 binary64 values, and every      *)
(* +, -, * and / rounds its exact result to the nearest of them, ties to   *)
(* the even mantissa.  This section models that arithmetic; the section    *)
(* after it is Loess.ts computed with it.                                  *)
(*                                                                         *)
(* A float is a record [k, s, e, m]: k = "num" is the value s * m * 2^e    *)
(* with sign s (1 or -1) and a mantissa m of exactly MantissaBits bits;    *)
(* k = "zero", "inf" (of sign s) and "nan" are the other values, and       *)
(* k = "none" stands for a result outside the normal range (a subnormal    *)
(* number or an overflow), which this model does not represent.  The two   *)
(* zeros are one value: the program never divides by a zero whose sign it  *)
(* could tell.                                                             *)
(*                                                                         *)
(* A mantissa, like every natural number here, is the sequence of its      *)
(* digits in base LimbBase, lowest digit first and highest digit non-zero; *)
(* 0 is the empty sequence.                                                *)

MantissaBits == 53

\* The base of the digits: the product of two digits plus a carry stays
\* below 2^31.
LimbBase == 128 * 128

RECURSIVE BigTrim(_)
BigTrim(a) ==
    IF a = <<>> \/ a[Len(a)] # 0 THEN a ELSE BigTrim(SubSeq(a, 1, Len(a) - 1))

\* The natural number n < 2^31.
RECURSIVE BigOf(_)
BigOf(n) == IF n = 0 THEN <<>> ELSE <<n % LimbBase>> \o BigOf(n \div LimbBase)

RECURSIVE BigCmpFrom(_, _, _)
BigCmpFrom(a, b, i) ==
    IF i = 0 THEN 0
    ELSE IF a[i] # b[i] THEN (IF a[i] < b[i] THEN -1 ELSE 1)
    ELSE BigCmpFrom(a, b, i - 1)

\* -1, 0 or 1 as a < b, a = b or a > b.
BigCmp(a, b) ==
    IF Len(a) # Len(b) THEN (IF Len(a) < Len(b) THEN -1 ELSE 1)
    ELSE BigCmpFrom(a, b, Len(a))

\* The digits from the i-th on of a + b + c.
RECURSIVE BigAddFrom(_, _, _, _)
BigAddFrom(a, b, i, c) ==
    IF i > Len(a) /\ i > Len(b) THEN (IF c = 0 THEN <<>> ELSE <<c>>)
    ELSE LET s == (IF i <= Len(a) THEN a[i] ELSE 0) + (IF i <= Len(b) THEN b[i] ELSE 0) + c
         IN  <<s % LimbBase>> \o BigAddFrom(a, b, i + 1, s \div LimbBase)

BigAdd(a, b) == BigAddFrom(a, b, 1, 0)

\* 2 * a + bit.
BigDouble(a, bit) == BigAddFrom(a, a, 1, bit)

\* a - b for a >= b.
RECURSIVE BigSubFrom(_, _, _, _)
BigSubFrom(a, b, i, c) ==
    IF i > Len(a) THEN <<>>
    ELSE LET s == a[i] - (IF i <= Len(b) THEN b[i] ELSE 0) - c
         IN  <<IF s < 0 THEN s + LimbBase ELSE s>>
             \o BigSubFrom(a, b, i + 1, IF s < 0 THEN 1 ELSE 0)

BigSub(a, b) == BigTrim(BigSubFrom(a, b, 1, 0))

\* a * d for one digit d.
RECURSIVE BigMulLimbFrom(_, _, _, _)
BigMulLimbFrom(a, d, i, c) ==
    IF i > Len(a) THEN (IF c = 0 THEN <<>> ELSE <<c>>)
    ELSE LET p == a[i] * d + c
         IN  <<p % LimbBase>> \o BigMulLimbFrom(a, d, i + 1, p \div LimbBase)

RECURSIVE BigMulFrom(_, _, _)
BigMulFrom(a, b, j) ==
    IF j > Len(b) THEN <<>>
    ELSE BigAdd(BigMulLimbFrom(a, b[j], 1, 0), <<0>> \o BigMulFrom(a, b, j + 1))

BigMul(a, b) == BigTrim(BigMulFrom(a, b, 1))

RECURSIVE BitLen(_)
BitLen(n) == IF n = 0 THEN 0 ELSE 1 + BitLen(n \div 2)

LimbBits == BitLen(LimbBase) - 1

BigBitLen(a) == IF a = <<>> THEN 0 ELSE (Len(a) - 1) * LimbBits + BitLen(a[Len(a)])

BigIsOdd(a) == a # <<>> /\ a[1] % 2 = 1

\* a * 2^k for a > 0.
BigShl(a, k) ==
    [i \in 1..(k \div LimbBits) |-> 0] \o BigMulLimbFrom(a, 2 ^ (k % LimbBits), 1, 0)

\* a \div 2^k.
BigShr(a, k) ==
    LET drop == k \div LimbBits
        low == 2 ^ (k % LimbBits)
        high == 2 ^ (LimbBits - (k % LimbBits))
        n == Len(a) - drop
    IN  IF n <= 0 THEN <<>>
        ELSE BigTrim([i \in 1..n |->
                         a[i + drop] \div low
                         + (IF i < n THEN (a[i + drop + 1] % low) * high ELSE 0)])

\* <<quo, rem>> after k more steps of the long division by b: each step
\* doubles the remainder rem and appends one bit to the quotient quo.
RECURSIVE BigDivLoop(_, _, _, _)
BigDivLoop(rem, b, quo, k) ==
    IF k = 0 THEN <<quo, rem>>
    ELSE Only({IF BigCmp(r2, b) >= 0
               THEN Only({BigDivLoop(r3, b, q3, k - 1) :
                          r3 \in {BigSub(r2, b)}, q3 \in {BigDouble(quo, 1)}})
               ELSE Only({BigDivLoop(r2, b, q3, k - 1) : q3 \in {BigDouble(quo, 0)}}) :
               r2 \in {BigDouble(rem, 0)}})

\* The same after n more bytes of steps.
RECURSIVE BigDivBytes(_, _, _, _)
BigDivBytes(rem, b, quo, n) ==
    IF n = 0 THEN <<quo, rem>>
    ELSE Only({BigDivBytes(qr[2], b, qr[1], n - 1) : qr \in {BigDivLoop(rem, b, quo, 8)}})

\* <<a * 2^(8 * n) \div b, the remainder>> for a < 2 * b.
BigDivShifted(a, b, n) ==
    IF BigCmp(a, b) >= 0 THEN BigDivBytes(BigSub(a, b), b, <<1>>, n)
    ELSE BigDivBytes(a, b, <<>>, n)

F64NaN == [k |-> "nan", s |-> 1, e |-> 0, m |-> <<>>]
F64Zero == [k |-> "zero", s |-> 1, e |-> 0, m |-> <<>>]
F64Inf(s) == [k |-> "inf", s |-> s, e |-> 0, m |-> <<>>]
F64None == [k |-> "none", s |-> 1, e |-> 0, m |-> <<>>]

\* The exponents of the normal numbers, the mantissa being an integer.
F64MinExp == -1021 - MantissaBits
F64MaxExp == 1024 - MantissaBits

F64Num(s, e, m) ==
    IF e < F64MinExp \/ e > F64MaxExp THEN F64None ELSE [k |-> "num", s |-> s, e |-> e, m |-> m]

\* The float nearest to s * (n + t) * 2^e, ties to even, for a natural
\* n > 0 and a fraction t that is 0 or, when sticky, strictly between 0
\* and 1; sticky only with n of more than MantissaBits bits.
F64RoundBits(s, n, e, sticky, len) ==
    IF len <= MantissaBits THEN F64Num(s, e - (MantissaBits - len), BigShl(n, MantissaBits - len))
    ELSE LET d == len - MantissaBits
         IN  Only({LET half == BigCmp(BigSub(n, BigShl(qn, d)), BigShl(<<1>>, d - 1))
                       up == half > 0 \/ (half = 0 /\ (sticky \/ BigIsOdd(qn)))
                   IN  IF ~up THEN F64Num(s, e + d, qn)
                       ELSE Only({IF BigBitLen(m) > MantissaBits
                                  THEN F64Num(s, e + d + 1, BigShr(m, 1))
                                  ELSE F64Num(s, e + d, m) :
                                  m \in {BigAdd(qn, <<1>>)}}) :
                   qn \in {BigShr(n, d)}})

F64Round(s, n, e, sticky) == Only({F64RoundBits(s, v, e, sticky, BigBitLen(v)) : v \in {n}})

F64NegV(x) == IF x.k \in {"num", "inf"} THEN [x EXCEPT !.s = -x.s] ELSE x

F64AbsV(x) == IF x.k \in {"num", "inf"} THEN [x EXCEPT !.s = 1] ELSE x

\* x + y for numbers x, y with x.e >= y.e.
F64AddNum(x, y) ==
    IF x.e - y.e > MantissaBits + 3 THEN x
    ELSE Only({IF x.s = y.s THEN F64Round(x.s, BigAdd(nx, y.m), y.e, FALSE)
               ELSE IF BigCmp(nx, y.m) = 0 THEN F64Zero
               ELSE IF BigCmp(nx, y.m) > 0 THEN F64Round(x.s, BigSub(nx, y.m), y.e, FALSE)
               ELSE F64Round(y.s, BigSub(y.m, nx), y.e, FALSE) :
               nx \in {BigShl(x.m, x.e - y.e)}})

F64AddV(x, y) ==
    IF x.k = "nan" \/ y.k = "nan" THEN F64NaN
    ELSE IF x.k = "none" \/ y.k = "none" THEN F64None
    ELSE IF x.k = "inf" THEN (IF y.k = "inf" /\ y.s # x.s THEN F64NaN ELSE x)
    ELSE IF y.k = "inf" THEN y
    ELSE IF x.k = "zero" THEN y
    ELSE IF y.k = "zero" THEN x
    ELSE IF x.e >= y.e THEN F64AddNum(x, y)
    ELSE F64AddNum(y, x)

F64MulV(x, y) ==
    IF x.k = "nan" \/ y.k = "nan" THEN F64NaN
    ELSE IF x.k = "none" \/ y.k = "none" THEN F64None
    ELSE IF x.k = "inf" \/ y.k = "inf"
    THEN (IF x.k = "zero" \/ y.k = "zero" THEN F64NaN ELSE F64Inf(x.s * y.s))
    ELSE IF x.k = "zero" \/ y.k = "zero" THEN F64Zero
    ELSE F64Round(x.s * y.s, BigMul(x.m, y.m), x.e + y.e, FALSE)

\* The quotient of two mantissas is computed to 8 * QuotientBytes binary
\* places, which leaves it more than MantissaBits + 1 bits.
QuotientBytes == (MantissaBits + 10) \div 8

F64DivV(x, y) ==
    IF x.k = "nan" \/ y.k = "nan" THEN F64NaN
    ELSE IF x.k = "none" \/ y.k = "none" THEN F64None
    ELSE IF x.k = "inf" THEN (IF y.k = "inf" THEN F64NaN ELSE F64Inf(x.s * y.s))
    ELSE IF y.k = "inf" THEN F64Zero
    ELSE IF y.k = "zero" THEN (IF x.k = "zero" THEN F64NaN ELSE F64Inf(x.s))
    ELSE IF x.k = "zero" THEN F64Zero
    ELSE Only({F64Round(x.s * y.s, qr[1], x.e - y.e - 8 * QuotientBytes, qr[2] # <<>>) :
               qr \in {BigDivShifted(x.m, y.m, QuotientBytes)}})

\* The operators of the language, each argument computed once.
F64Add(a, b) == Only({F64AddV(x, y) : x \in {a}, y \in {b}})
F64Sub(a, b) == Only({F64AddV(x, F64NegV(y)) : x \in {a}, y \in {b}})
F64Neg(a) == Only({F64NegV(x) : x \in {a}})
F64Abs(a) == Only({F64AbsV(x) : x \in {a}})
F64Mul(a, b) == Only({F64MulV(x, y) : x \in {a}, y \in {b}})
F64Div(a, b) == Only({F64DivV(x, y) : x \in {a}, y \in {b}})

\* x < y for values that are no NaN.
F64Below(x, y) ==
    LET sx == IF x.k = "zero" THEN 0 ELSE x.s
        sy == IF y.k = "zero" THEN 0 ELSE y.s
    IN  IF sx # sy THEN sx < sy
        ELSE IF sx = 0 THEN FALSE
        ELSE IF x.k = "inf" \/ y.k = "inf"
        THEN (IF sx > 0 THEN x.k # "inf" /\ y.k = "inf" ELSE x.k = "inf" /\ y.k # "inf")
        ELSE IF x.e # y.e THEN (IF sx > 0 THEN x.e < y.e ELSE x.e > y.e)
        ELSE (IF sx > 0 THEN BigCmp(x.m, y.m) < 0 ELSE BigCmp(x.m, y.m) > 0)

F64IsNaN(a) == a.k = "nan"
F64IsFinite(a) == a.k \in {"num", "zero"}
F64Lt(a, b) == Only({~F64IsNaN(x) /\ ~F64IsNaN(y) /\ F64Below(x, y) : x \in {a}, y \in {b}})
F64Ge(a, b) == Only({~F64IsNaN(x) /\ ~F64IsNaN(y) /\ ~F64Below(x, y) : x \in {a}, y \in {b}})
F64Eq(a, b) == Only({~F64IsNaN(x) /\ ~F64IsNaN(y) /\ x = y : x \in {a}, y \in {b}})
F64Max(a, b) ==
    Only({IF F64IsNaN(x) \/ F64IsNaN(y) THEN F64NaN ELSE IF F64Below(x, y) THEN y ELSE x :
          x \in {a}, y \in {b}})

\* The float of the integer n, |n| < 2^31.
F64OfInt(n) == IF n = 0 THEN F64Zero ELSE F64Round(IF n < 0 THEN -1 ELSE 1, BigOf(AbsInt(n)), 0, FALSE)

\* The float the number <<n, d>> of the exact model is read as: the one
\* nearest to n/d, which is what a decimal literal denotes.
F64Of(v) ==
    IF v = PInf THEN F64Inf(1)
    ELSE IF v = NInf THEN F64Inf(-1)
    ELSE IF v[2] = 0 THEN F64NaN
    ELSE F64Div(F64OfInt(v[1]), F64OfInt(v[2]))

F64Array(a) == [i \in 1..Len(a) |-> F64Of(a[i])]

----------------------------------------------------------------------------
(* Loess.ts in 64-bit floats.                                              *)
(*                                                                         *)
(* smooth once more, every operation on numbers now rounding as the        *)
(* program's does.  The arrays hold floats; the parameter object is the    *)
(* record of the exact model, its numbers read as the literals they are.   *)
(* The index computations test weights against zero only and are the       *)
(* definitions of the exact model, applied to the zero pattern of the      *)
(* weights.  A result outside the normal range makes smooth64 report the   *)
(* pseudo error "Unrepresentable".                                         *)

F64One == F64OfInt(1)

\* 10^k (exact up to k = 22) and the literal 1E-k.
RECURSIVE F64TenTo(_)
F64TenTo(k) == IF k = 0 THEN F64One ELSE F64Mul(F64TenTo(k - 1), F64OfInt(10))
F64PowerOfTen(k) == F64Div(F64One, F64TenTo(k))

\* The literals 1.001 and 1E-12 of calculateLocalLinearRegression.
MaxDistFactor64 == F64Of(Rat(1001, 1000))
SumWeightsLimit64 == F64PowerOfTen(SumWeightsDigits)

\* a[i], an element outside the array behaving as NaN in all that is
\* computed from it.
At64(a, i) == IF 0 <= i /\ i < Len(a) THEN a[i + 1] ELSE F64NaN

\* Math.round(v) as an integer, halves upwards, for a finite v below 2^30
\* in magnitude: v = s * m / 2^k, and the result is the floor of
\* (2 * s * m + 2^k) / 2^(k + 1).
RECURSIVE BigToInt(_)
BigToInt(a) == IF a = <<>> THEN 0 ELSE a[1] + LimbBase * BigToInt(Tail(a))

MathRound64(v) ==
    IF v.k = "zero" \/ v.e < -MantissaBits - 1 THEN 0
    ELSE LET one == BigShl(<<1>>, -v.e)
             twice == BigDouble(v.m, 0)
         IN  IF v.s > 0 THEN BigToInt(BigShr(BigAdd(twice, one), 1 - v.e))
             ELSE IF BigCmp(twice, one) <= 0 THEN 0
             ELSE -BigToInt(BigShr(BigAdd(BigSub(twice, one), BigSub(BigShl(<<1>>, 1 - v.e), <<1>>)),
                                   1 - v.e))

\* 1 where the weight is not zero, for the index computations.
ZeroPattern(weights) ==
    IF ~weights.defined THEN NoWeights
    ELSE Weights([i \in 1..Len(weights.val) |->
                     IF weights.val[i].k = "zero" THEN NumOf(0) ELSE NumOf(1)])

triCube64(x) ==
    Only({IF F64Ge(absX, F64One) THEN F64Zero
          ELSE Only({F64Mul(F64Mul(tmp, tmp), tmp) :
                     tmp \in {F64Sub(F64One, F64Mul(F64Mul(absX, absX), absX))}}) :
          absX \in {F64Abs(x)}})

biWeight64(x) ==
    Only({IF F64Ge(absX, F64One) THEN F64Zero
          ELSE Only({F64Mul(tmp, tmp) : tmp \in {F64Sub(F64One, F64Mul(absX, absX))}}) :
          absX \in {F64Abs(x)}})

absDiff64(a1, a2) == [i \in 1..Len(a1) |-> F64Abs(F64Sub(a1[i], At64(a2, i - 1)))]

combineWeights64(w1, w2) ==
    IF ~w1.defined \/ ~w2.defined THEN (IF w1.defined THEN w1 ELSE w2)
    ELSE Weights([i \in 1..Len(w1.val) |-> F64Mul(w1.val[i], At64(w2.val, i - 1))])

calculateRobustnessWeights64(residuals, outlierDistance) ==
    [i \in 1..Len(residuals) |-> biWeight64(F64Div(residuals[i], outlierDistance))]

\* a2.sort() of a Float64Array: ascending, NaN last.
SortsBefore64(a, b) == IF F64IsNaN(a) THEN FALSE ELSE IF F64IsNaN(b) THEN TRUE ELSE F64Below(a, b)

RECURSIVE InsertSorted64(_, _)
InsertSorted64(a, v) ==
    IF a = <<>> THEN <<v>>
    ELSE IF SortsBefore64(v, a[1]) THEN <<v>> \o a
    ELSE <<a[1]>> \o InsertSorted64(Tail(a), v)

RECURSIVE SortNumbers64(_)
SortNumbers64(a) == IF a = <<>> THEN <<>> ELSE InsertSorted64(SortNumbers64(Tail(a)), a[1])

\* getMedian(a) of Utils.ts
getMedian64(a) ==
    LET n == Len(a)
        m == n \div 2
    IN  IF n < 1 THEN F64NaN
        ELSE Only({IF n % 2 = 0 THEN F64Div(F64Add(At64(a2, m - 1), At64(a2, m)), F64OfInt(2))
                   ELSE At64(a2, m) :
                   a2 \in {SortNumbers64(a)}})

\* The body of the loop of calculateLocalLinearRegression for a point of
\* weight w: the five sums after it.
regressionStep64(sums, xk, yk, w) ==
    Only({[sumWeights  |-> F64Add(sums.sumWeights, w),
           sumX        |-> F64Add(sums.sumX, xkw),
           sumXSquared |-> F64Add(sums.sumXSquared, F64Mul(xk, xkw)),
           sumY        |-> F64Add(sums.sumY, F64Mul(yk, w)),
           sumXY       |-> F64Add(sums.sumXY, F64Mul(yk, xkw))] :
          xkw \in {F64Mul(xk, w)}})

\* The loop over the points k..iRight of the window.
RECURSIVE regressionSums64(_, _, _, _, _, _, _, _)
regressionSums64(xv, yv, weights, x, maxDist, k, iRight, sums) ==
    IF k > iRight THEN sums
    ELSE Only({regressionSums64(xv, yv, weights, x, maxDist, k + 1, iRight, s2) :
               s2 \in {Only({regressionStep64(sums, At64(xv, k), At64(yv, k), w) :
                             w \in {F64Mul(IF weights.defined THEN At64(weights.val, k)
                                           ELSE F64One,
                                           triCube64(F64Div(F64Abs(F64Sub(At64(xv, k), x)),
                                                            maxDist)))}})}})

ZeroSums64 ==
    [sumWeights |-> F64Zero, sumX |-> F64Zero, sumXSquared |-> F64Zero, sumY |-> F64Zero,
     sumXY |-> F64Zero]

\* The part of calculateLocalLinearRegression after the loop.
regressionValue64(sums, x, accuracy) ==
    IF F64Lt(sums.sumWeights, SumWeightsLimit64) THEN F64NaN
    ELSE Only({Only({Only({F64Sub(F64Add(meanY, F64Mul(beta, x)), F64Mul(beta, meanX)) :
                           beta \in {IF F64Lt(F64Abs(meanXSqrDiff), F64Mul(accuracy, accuracy))
                                     THEN F64Zero
                                     ELSE F64Div(F64Sub(meanXY, F64Mul(meanX, meanY)),
                                                 meanXSqrDiff)}}) :
                     meanXSqrDiff \in {F64Sub(meanXSquared, F64Mul(meanX, meanX))}}) :
               meanX \in {F64Div(sums.sumX, sums.sumWeights)},
               meanY \in {F64Div(sums.sumY, sums.sumWeights)},
               meanXY \in {F64Div(sums.sumXY, sums.sumWeights)},
               meanXSquared \in {F64Div(sums.sumXSquared, sums.sumWeights)}})

\* calculateLocalLinearRegression(...): [err, val].  accuracy ** 2 is taken
\* to be the rounded product accuracy * accuracy.
calculateLocalLinearRegression64(xv, yv, weights, x, iLeft, iRight, accuracy) ==
    Only({IF F64Lt(maxDist0, F64Zero) THEN [err |-> "InconsistentBandwidth", val |-> F64NaN]
          ELSE Only({[err |-> "", val |-> regressionValue64(sums, x, accuracy)] :
                     sums \in {regressionSums64(xv, yv, weights, x,
                                                IF F64Eq(maxDist0, F64Zero) THEN F64One
                                                ELSE maxDist0,
                                                iLeft, iRight, ZeroSums64)}}) :
          maxDist0 \in {F64Mul(F64Max(F64Sub(x, At64(xv, iLeft)), F64Sub(At64(xv, iRight), x)),
                               MaxDistFactor64)}})

\* Lines 167 to 186 of calculateLocalLinearRegression for one point xk of
\* the window from xLeft to xRight: maxDist, dist and the tri-cube weight w2.
kernelWeight64(x, xLeft, xRight, xk) ==
    Only({Only({[maxDist |-> maxDist, dist |-> dist, w2 |-> triCube64(F64Div(dist, maxDist))] :
                maxDist \in {IF F64Eq(maxDist0, F64Zero) THEN F64One ELSE maxDist0},
                dist \in {F64Abs(F64Sub(xk, x))}}) :
          maxDist0 \in {F64Mul(F64Max(F64Sub(x, xLeft), F64Sub(xRight, x)), MaxDistFactor64)}})

\* kernelWeight64 on the x values of the window model, <<x, xLeft, xRight, xk>>,
\* as a table that is computed once.
KernelWeights64 ==
    Only({t \in {[c \in (0..MaxWindowX) \X (0..MaxWindowX) \X (0..MaxWindowX) \X (0..MaxWindowX) |->
                     kernelWeight64(F64OfInt(c[1]), F64OfInt(c[2]), F64OfInt(c[3]), F64OfInt(c[4]))]} :
          t = t})

\* moveBandwidthInterval(bw, x, xVals, weights): bw after the call.
RECURSIVE moveBandwidthInterval64(_, _, _, _)
moveBandwidthInterval64(bw, x, xv, weights) ==
    LET n == Len(xv)
        nextRight == findNonZero(ZeroPattern(weights), bw.iRight + 1)
    IN  IF nextRight >= n \/ F64Ge(F64Sub(At64(xv, nextRight), x), F64Sub(x, At64(xv, bw.iLeft)))
        THEN bw
        ELSE moveBandwidthInterval64([iLeft |-> findNonZero(ZeroPattern(weights), bw.iLeft + 1),
                                      iRight |-> nextRight, err |-> bw.err],
                                     x, xv, weights)

\* The loop of calculateSequenceRegression from point i on: [err, fit].
RECURSIVE sequenceRegressionLoop64(_, _, _, _, _, _, _)
sequenceRegressionLoop64(xv, yv, weights, accuracy, i, bw, fit) ==
    IF i < Len(xv)
    THEN Only({Only({IF local.err # "" THEN [err |-> local.err, fit |-> fit]
                     ELSE IF local.val.k = "none" THEN [err |-> "Unrepresentable", fit |-> fit]
                     ELSE sequenceRegressionLoop64(xv, yv, weights, accuracy, i + 1, bw2,
                                                   Append(fit, local.val)) :
                     local \in {calculateLocalLinearRegression64(xv, yv, weights, At64(xv, i),
                                                                 bw2.iLeft, bw2.iRight,
                                                                 accuracy)}}) :
               bw2 \in {moveBandwidthInterval64(bw, At64(xv, i), xv, weights)}})
    ELSE [err |-> "", fit |-> fit]

\* calculateSequenceRegression(...): [err, fit], for a finite
\* bandwidthFraction.
calculateSequenceRegression64(xv, yv, weights, bandwidthFraction, accuracy, iter) ==
    LET n == Len(xv)
        n2 == IF weights.defined THEN countNonZeros(ZeroPattern(weights).val) ELSE n
        bandwidthInPoints == MaxI(2, MinI(n2, MathRound64(F64Mul(F64OfInt(n2), bandwidthFraction))))
        bw == findInitialBandwidthInterval(ZeroPattern(weights), NumOf(bandwidthInPoints), n)
    IN  IF n2 < 2 THEN [err |-> "InsufficientPoints", fit |-> <<>>]
        ELSE IF bw.err # "" THEN [err |-> bw.err, fit |-> <<>>]
        ELSE sequenceRegressionLoop64(xv, yv, weights, accuracy, 0, bw, <<>>)

\* What smooth returns in floats: the error thrown (and the iteration that
\* threw it) or the fit; the diagnostics written; and, as history, one
\* record per regression pass run: its fit and the median residual that let
\* it run.
SmoothResult64(err, iter, fit, diag, passes) ==
    [err |-> err, kind |-> "fit64", iter |-> iter, fit |-> fit, diag |-> diag,
     passes |-> passes]

\* The for loop of smooth, from iteration iter on: smoothLoop64 does the
\* part of an iteration before the regression and smoothPass64 the rest.
RECURSIVE smoothLoop64(_, _, _, _, _, _, _)
smoothPass64(xv, yv, p, iter, diag, passes, medianResidual, combinedWeights) ==
    Only({IF reg.err # ""
          THEN SmoothResult64(reg.err, iter, <<>>, diag,
                              Append(passes, [fit |-> reg.fit, medianResidual |-> medianResidual]))
          ELSE smoothLoop64(xv, yv, p, iter + 1, reg.fit, diag,
                            Append(passes, [fit |-> reg.fit, medianResidual |-> medianResidual])) :
          reg \in {calculateSequenceRegression64(
                       xv, yv, combinedWeights,
                       F64Of(OrDefault(p.bandwidthFraction, DefaultBandwidthFraction)),
                       F64PowerOfTen(AccuracyDigits(p)), iter)}})

smoothLoop64(xv, yv, p, iter, fitYVals, diag, passes) ==
    IF ~Le(NumOf(iter), OrDefault(p.robustnessIters, DefaultRobustnessIters))
    THEN SmoothResult64("", iter, fitYVals, diag, passes)
    ELSE IF iter = 0
    THEN smoothPass64(xv, yv, p, iter, diag, passes, F64NaN,
                      combineWeights64(IF p.weights.defined THEN Weights(F64Array(p.weights.val))
                                       ELSE NoWeights,
                                       NoWeights))
    ELSE Only({Only({IF medianResidual.k = "none"
                     THEN SmoothResult64("Unrepresentable", iter, <<>>, diag, passes)
                     ELSE IF F64Lt(medianResidual, F64PowerOfTen(AccuracyDigits(p)))
                     THEN SmoothResult64("", iter, fitYVals,
                                         [diag EXCEPT !.lastMedianResidual = medianResidual],
                                         passes)
                     ELSE Only({IF \E i \in 1..Len(rw) : rw[i].k = "none"
                                THEN SmoothResult64("Unrepresentable", iter, <<>>, diag, passes)
                                ELSE smoothPass64(
                                         xv, yv, p, iter,
                                         [diag EXCEPT !.robustnessIters = NumOf(iter),
                                                      !.secondLastMedianResidual = medianResidual,
                                                      !.robustnessWeights = Weights(rw)],
                                         passes, medianResidual,
                                         combineWeights64(
                                             IF p.weights.defined
                                             THEN Weights(F64Array(p.weights.val))
                                             ELSE NoWeights,
                                             Weights(rw))) :
                                rw \in {calculateRobustnessWeights64(
                                            residuals,
                                            F64Mul(medianResidual,
                                                   F64Of(OrDefault(p.outlierDistanceFactor,
                                                                   DefaultOutlierDistanceFactor))))}}) :
                     medianResidual \in {getMedian64(residuals)}}) :
               residuals \in {absDiff64(fitYVals, yv)}})

\* The checks of smooth on arrays of floats.
smoothValidation64(xv, yv, weights) ==
    IF \E i \in 1..Len(xv) : ~F64IsFinite(xv[i]) \/ (i > 1 /\ F64Lt(xv[i], xv[i - 1]))
    THEN "InvalidSequence"
    ELSE IF \E i \in 1..Len(yv) : ~F64IsFinite(yv[i]) THEN "InvalidSequence"
    ELSE IF weights.defined /\ \E i \in 1..Len(weights.val) : ~F64IsFinite(F64Of(weights.val[i]))
    THEN "InvalidSequence"
    ELSE IF Len(yv) # Len(xv) \/ (weights.defined /\ Len(weights.val) # Len(xv))
    THEN "DimensionMismatch"
    ELSE ""

\* smooth(parms), parms being p with the arrays xv and yv of floats.
smooth64(xv, yv, p) ==
    LET err == smoothValidation64(xv, yv, p.weights)
        diag == [EmptyDiagInfo EXCEPT !.robustnessIters = NumOf(0)]
    IN  IF err # "" THEN SmoothResult64(err, -1, <<>>, NoDiagInfo, <<>>)
        ELSE IF Len(xv) <= TrivialPoints THEN SmoothResult64("", -1, yv, diag, <<>>)
        ELSE smoothLoop64(xv, yv, p, 0, <<>>, diag, <<>>)

----------------------------------------------------------------------------
(* Index.ts                                                                *)

MethodNames == {"akima", "cubic", "linear", "nearestNeighbor", "loess"}

RECURSIVE createInterpolator(_, _, _)

\* A slip: Akima is replaced by cubic below 4 points, not below 5.
createInterpolatorWithFallbackBelow4(interpolationMethod, xa, ya) ==
    LET n  == Len(xa.val)
        m1 == IF n < 4 /\ interpolationMethod = "akima" THEN "cubic"
              ELSE interpolationMethod
        m2 == IF n < 3 /\ m1 = "cubic" THEN "linear" ELSE m1
    IN  IF n < 2
        THEN Returned("const", NoArray, NoArray, <<>>,
                      IF n = 1 THEN At(ya.val, 0) ELSE NumOf(0), n)
        ELSE createInterpolator(m2, xa, ya)

\* A slip: Akima is replaced by cubic below 6 points, not below 5.
createInterpolatorWithFallbackBelow6(interpolationMethod, xa, ya) ==
    LET n  == Len(xa.val)
        m1 == IF n < 6 /\ interpolationMethod = "akima" THEN "cubic"
              ELSE interpolationMethod
        m2 == IF n < 3 /\ m1 = "cubic" THEN "linear" ELSE m1
    IN  IF n < 2
        THEN Returned("const", NoArray, NoArray, <<>>,
                      IF n = 1 THEN At(ya.val, 0) ELSE NumOf(0), n)
        ELSE createInterpolator(m2, xa, ya)

createInterpolatorWithFallback(interpolationMethod, xa, ya) ==
    LET n  == Len(xa.val)
        m1 == IF n < 5 /\ interpolationMethod = "akima" THEN "cubic"
              ELSE interpolationMethod
        m2 == IF n < 3 /\ m1 = "cubic" THEN "linear" ELSE m1
    IN  IF n < 2
        THEN Returned("const", NoArray, NoArray, <<>>,
                      IF n = 1 THEN At(ya.val, 0) ELSE NumOf(0), n)
        ELSE createInterpolator(m2, xa, ya)

\* Lines 39 to 43 of createLoessInterpolator(parms), parms being p with the
\* arrays xv and yv: what smooth returned, and the knots.
loessKnots(xv, yv, p) ==
    LET minXDistance == OrDefault(p.minXDistance, getDefaultMinXDistance(xv))
        WithFilter(sm, knotFilter) ==
            [sm |-> sm, knotFilter |-> knotFilter,
             knotXVals |-> IF sm.err # "" THEN <<>> ELSE filterNumberArray(xv, knotFilter),
             knotYVals |-> IF sm.err # "" THEN <<>>
                           ELSE filterNumberArray(sm.fit, knotFilter)]
    IN  Only({Only({WithFilter(sm, knotFilter) :
                    knotFilter \in {IF sm.err # "" THEN <<>>
                                    ELSE createKnotFilter(xv, sm.fit, minXDistance)}}) :
              sm \in {smooth(xv, yv, p)}})

\* Line 50: the interpolator of the knots kn, or the error smooth threw.
loessInterpolator(kn, p) ==
    LET interpolationMethod == IF p.interpolationMethod = "undefined" THEN "akima"
                               ELSE p.interpolationMethod
    IN  IF kn.sm.err # "" THEN Failed(kn.sm.err)
        ELSE createInterpolatorWithFallback(interpolationMethod,
                                            PrivateArray(kn.knotXVals),
                                            PrivateArray(kn.knotYVals))

\* createLoessInterpolator(parms), parms being p with the array objects xa
\* and ya.
createLoessInterpolator(xa, ya, p) == loessInterpolator(loessKnots(xa.val, ya.val, p), p)

createInterpolator(interpolationMethod, xa, ya) ==
    IF interpolationMethod = "akima" THEN createAkimaSplineInterpolator(xa, ya)
    ELSE IF interpolationMethod = "cubic" THEN createCubicSplineInterpolator(xa, ya)
    ELSE IF interpolationMethod = "linear" THEN createLinearInterpolator(xa, ya)
    ELSE IF interpolationMethod = "nearestNeighbor"
         THEN createNearestNeighborInterpolator(xa, ya)
    ELSE IF interpolationMethod = "loess"
         THEN createLoessInterpolator(xa, ya, DefaultParms)
    ELSE Failed("UnknownMethod")

\* The returned function fn at x, when the caller's arrays hold xv and yv:
\* [err, val, seg].
Apply(fn, x, xv, yv) ==
    IF fn.kind = "poly"
    THEN evaluatePolySegment(Deref(fn.xs, xv, yv), fn.coeffs, x)
    ELSE IF fn.kind = "nn"
    THEN nearestNeighbor(Deref(fn.xs, xv, yv), Deref(fn.ys, xv, yv), fn.n, x)
    ELSE IF fn.kind = "nan" THEN [err |-> "", val |-> NaN, seg |-> -1]
    ELSE IF fn.kind = "first"
    THEN [err |-> "", val |-> At(Deref(fn.ys, xv, yv), 0), seg |-> -1]
    ELSE [err |-> "", val |-> fn.c, seg |-> -1]

----------------------------------------------------------------------------
(* The inputs of the model.                                                *)

Methods == MethodNames \cup {"other"}

RECURSIVE SortedSeq(_)
SortedSeq(S) ==
    IF S = {} THEN <<>>
    ELSE LET m == CHOOSE v \in S : \A w \in S : v <= w
         IN  <<NumOf(m)>> \o SortedSeq(S \ {m})

\* The strictly increasing arrays with at most len elements drawn from 0..top.
IncreasingArrays(top, len) ==
    {SortedSeq(S) : S \in {T \in SUBSET (0..top) : Cardinality(T) <= len}}

\* The y values of valid point sequences.
YDom == {NumOf(0), NumOf(1)}

\* The queries: the halves from -1/2 to top + 1/2, NaN and the infinities.
Queries(top) == {Rat(k, 2) : k \in (-1)..(2 * top + 1)} \cup {NaN, PInf, NInf}

\* <<0, 1, ..., n-1>> and <<0, 1, 0, 1, ...>> of n elements.
Ramp(n) == [i \in 1..n |-> NumOf(i - 1)]
ZigZag(n) == [i \in 1..n |-> NumOf((i - 1) % 2)]

\* a with one element replaced by a non-finite value, or by its neighbour's
\* value (which breaks a strict order).
Faults(a) ==
    {[a EXCEPT ![i] = v] : i \in 1..Len(a), v \in {NaN, PInf}}
    \cup {[a EXCEPT ![i] = a[i - 1]] : i \in 2..Len(a)}
    \cup {[a EXCEPT ![i] = a[i + 1]] : i \in 1..(Len(a) - 1)}

\* The point sequences of the documented examples: the two knots (0, 0),
\* (10, 1), and the four points of examples/example1.js; their queries are
\* the integers 0 .. 10.
ExamplePoints ==
    {[x |-> <<NumOf(0), NumOf(10)>>, y |-> <<NumOf(0), NumOf(1)>>],
     [x |-> <<NumOf(0), NumOf(3), NumOf(7), NumOf(10)>>,
      y |-> <<NumOf(1), NumOf(5), NumOf(-3), NumOf(0)>>]}

ExampleQueries == {NumOf(k) : k \in 0..10}

\* The queries a function over the caller's x array is evaluated at.
QueriesFor(xv) ==
    Queries(MaxX) \cup (IF \E p \in ExamplePoints : p.x = xv THEN ExampleQueries ELSE {})

NoResult == [err |-> "", val |-> NaN, seg |-> -1]

InitRest ==
    /\ entry = ""
    /\ method = ""
    /\ f = Failed("")
    /\ q = NaN
    /\ r = NoResult
    /\ pc = "start"
    /\ writes = 0
    /\ ref = <<>>
    /\ parms = DefaultParms

\* Valid point sequences: strictly increasing x, y of the same length.
InitPoints ==
    /\ \/ /\ xVals \in IncreasingArrays(MaxX, MaxLen)
          /\ yVals \in [1..Len(xVals) -> YDom]
       \/ \E p \in ExamplePoints : xVals = p.x /\ yVals = p.y
    /\ InitRest

\* Arrays of any two lengths, valid or with one fault.
InitInputs ==
    /\ xVals \in UNION {{Ramp(n)} \cup Faults(Ramp(n)) : n \in 0..MaxLen}
    /\ yVals \in UNION {{ZigZag(n)} \cup Faults(ZigZag(n)) : n \in 0..MaxLen}
    /\ InitRest

\* One valid point sequence of each length.
InitWrites ==
    /\ \E n \in 0..MaxLen : xVals = Ramp(n) /\ yVals = ZigZag(n)
    /\ InitRest

\* The values of the arrays handed to the sequence checks.
CheckValues == {NumOf(k) : k \in 0..MaxCheckVal} \cup {NaN, PInf, NInf}

\* Every short array over CheckValues, and every Ramp with at most one
\* element replaced by a non-finite value or by a value of the ramp.
CheckArrays ==
    UNION {[1..n -> CheckValues] : n \in 0..MaxCheckLen}
    \cup UNION {{Ramp(n)} \cup {[Ramp(n) EXCEPT ![i] = v] :
                                  i \in 1..n, v \in {NaN, PInf, NInf} \cup {NumOf(k) : k \in 0..(n - 1)}} :
                 n \in 0..MaxLen}

\* An array for the sequence checks, with a y array of the same length.
InitChecks ==
    /\ xVals \in CheckArrays
    /\ yVals = ZigZag(Len(xVals))
    /\ InitRest

\* Arrays for binarySearch: strictly increasing, of every length, with or
\* without -Infinity as the first and +Infinity as the last element.
InitSearch ==
    /\ \E a \in IncreasingArrays(MaxKey, MaxKey + 1), lo \in {<<>>, <<NInf>>},
          hi \in {<<>>, <<PInf>>} : xVals = lo \o a \o hi
    /\ yVals = <<>>
    /\ InitRest

\* The inputs of smooth.  Numbers(s) is the array of the integers s.
NonDecreasing(s) == \A i \in 1..(Len(s) - 1) : s[i] <= s[i + 1]
Numbers(s) == [i \in 1..Len(s) |-> NumOf(s[i])]
\* The non-decreasing x arrays of n elements over 0..MaxLoessX (duplicates
\* included) and the y arrays of n elements over 0..MaxLoessY.
LoessXs(n) == {Numbers(s) : s \in {t \in [1..n -> 0..MaxLoessX] : NonDecreasing(t)}}
LoessYs(n) == {Numbers(s) : s \in [1..n -> 0..MaxLoessY]}
\* The weight arrays of n elements over 0 and 1.
WeightArrays(n) == {Numbers(s) : s \in [1..n -> 0..1]}

\* A diagInfo object that still holds the diagnostics of an earlier call.
StaleDiagInfo ==
    [EmptyDiagInfo EXCEPT !.robustnessIters = NumOf(9), !.lastMedianResidual = NumOf(9),
                          !.robustnessWeights = Weights(<<NumOf(9)>>)]

\* The parameter objects that leave out or set bandwidthFraction (1),
\* robustnessIters (0, 1), accuracy (1) and outlierDistanceFactor (1); they
\* carry a diagInfo object.
SmoothOptions ==
    {[DefaultParms EXCEPT !.bandwidthFraction = b, !.robustnessIters = ri, !.accuracy = a,
                          !.outlierDistanceFactor = o, !.diagInfo = StaleDiagInfo] :
         b \in {Undefined, NumOf(1)}, ri \in {Undefined, NumOf(0), NumOf(1)},
         a \in {Undefined, PowerOfTen(0)}, o \in {Undefined, NumOf(1)}}

\* The objects of SmoothOptions that set at most one parameter.
SingleOptions ==
    {p \in SmoothOptions :
         Cardinality({k \in {"bandwidthFraction", "robustnessIters", "accuracy",
                             "outlierDistanceFactor"} : p[k] # Undefined}) <= 1}

\* The parameter objects for n points: the defaults; up to MaxWeightedLen
\* points also every weight array over 0 and 1 and every object of
\* SingleOptions; up to TrivialPoints points every object of SmoothOptions
\* with every weight array.
SmoothParms(n) ==
    {DefaultParms}
    \cup (IF n <= MaxWeightedLen
          THEN {[DefaultParms EXCEPT !.weights = Weights(w)] : w \in WeightArrays(n)}
               \cup SingleOptions
          ELSE {})
    \cup (IF n <= TrivialPoints
          THEN SmoothOptions
               \cup {[p EXCEPT !.weights = Weights(w)] : p \in SmoothOptions, w \in WeightArrays(n)}
          ELSE {})

\* a with one element replaced by a non-finite value.
NonFinite(a) == {[a EXCEPT ![i] = v] : i \in 1..Len(a), v \in {NaN, PInf, NInf}}
\* a with two neighbours exchanged, or with one element replaced by its
\* neighbour's value.
Disorder(a) ==
    {[a EXCEPT ![i] = a[i + 1], ![i + 1] = a[i]] : i \in 1..(Len(a) - 1)}
    \cup {[a EXCEPT ![i] = a[i + 1]] : i \in 1..(Len(a) - 1)}
\* The lengths n - 1, n and n + 1.
Near(n) == {m \in (n - 1)..(n + 1) : m >= 0}
Ones(n) == [i \in 1..n |-> NumOf(1)]

InitSmoothRest ==
    /\ entry = ""
    /\ method = ""
    /\ f = Failed("")
    /\ q = NaN
    /\ r = NoResult
    /\ pc = "start"
    /\ writes = 0
    /\ ref = <<>>

\* Valid points and parameters.
InitSmoothValid ==
    \E n \in 0..MaxLoessLen :
        /\ xVals \in LoessXs(n)
        /\ yVals \in LoessYs(n)
        /\ parms \in SmoothParms(n)

\* The weights of the faulty calls: none, all 1 with a length near n, or n
\* weights with one non-finite.
FaultyWeights(n) ==
    {NoWeights} \cup {Weights(Ones(m)) : m \in Near(n)}
    \cup {Weights(a) : a \in NonFinite(Ones(n))}

\* Arrays of lengths that may differ by one, valid or with one fault each.
InitSmoothFaulty ==
    \E n \in 0..MaxLoessLen :
        /\ xVals \in {Ramp(n)} \cup NonFinite(Ramp(n)) \cup Disorder(Ramp(n))
        /\ yVals \in UNION {{ZigZag(m)} \cup NonFinite(ZigZag(m)) : m \in Near(n)}
        /\ parms \in {[DefaultParms EXCEPT !.weights = w, !.diagInfo = StaleDiagInfo] :
                          w \in FaultyWeights(n)}

InitSmooth ==
    /\ InitSmoothValid \/ InitSmoothFaulty
    /\ InitSmoothRest

\* The inputs of createLoessInterpolator and of createKnotFilter.  The
\* points of the knot example, whose x are 0, 1, 2, 6, 11.
KnotExampleX == <<NumOf(0), NumOf(1), NumOf(2), NumOf(6), NumOf(11)>>
KnotExampleY == <<NumOf(0), NumOf(1), NumOf(0), NumOf(1), NumOf(0)>>

\* The values of minXDistance: left out, negative, 0, positive, and NaN.
MinXDistances ==
    {Undefined, NumOf(-1), NumOf(0), Rat(1, 2), NumOf(1), NumOf(2), NumOf(5), NaN}

\* The parameter objects of createLoessInterpolator: a minXDistance, the
\* default method or one that interpolates any two knots, and a diagInfo
\* object.
LoessParms ==
    {[DefaultParms EXCEPT !.minXDistance = d, !.interpolationMethod = m,
                          !.diagInfo = StaleDiagInfo] :
         d \in MinXDistances, m \in {"undefined", "linear", "nearestNeighbor"}}

\* a with one element, or every element, replaced by NaN.
WithNaN(a) == {[a EXCEPT ![i] = NaN] : i \in 1..Len(a)} \cup {[i \in 1..Len(a) |-> NaN]}

\* Non-decreasing x arrays; as y, which createKnotFilter takes as the fitted
\* values, 0, 1, 0, 1, ..., all 1, and these with NaN.
InitLoess ==
    /\ \/ \E n \in 0..MaxLoessLen :
              /\ xVals \in LoessXs(n)
              /\ yVals \in {ZigZag(n), Ones(n)} \cup WithNaN(ZigZag(n))
       \/ (xVals = KnotExampleX /\ yVals \in {KnotExampleY} \cup WithNaN(KnotExampleY))
    /\ parms \in LoessParms
    /\ InitSmoothRest

\* The calls that are made twice: non-decreasing x and the ramp with a
\* disorder, no weights or weights with one non-zero entry, and a diagInfo
\* that is absent, empty or filled by an earlier call.
DiagInfos == {NoDiagInfo, EmptyDiagInfo, StaleDiagInfo}
FirstOnly(n) == [i \in 1..n |-> IF i = 1 THEN NumOf(1) ELSE NumOf(0)]
InitDiag ==
    /\ \E n \in 0..MaxLoessLen :
          /\ xVals \in LoessXs(n) \cup Disorder(Ramp(n))
          /\ yVals \in LoessYs(n)
          /\ parms \in {[DefaultParms EXCEPT !.weights = w, !.diagInfo = d] :
                           w \in {NoWeights, Weights(FirstOnly(n))}, d \in DiagInfos}
    /\ InitSmoothRest

\* The points of the Akima and Hermite coefficient functions: 2 to
\* MaxAkimaLen strictly increasing x from 0..MaxAkimaX, y over 0 and 1.
InitAkima ==
    /\ xVals \in {xv \in IncreasingArrays(MaxAkimaX, MaxAkimaLen) : Len(xv) >= 2}
    /\ yVals \in [1..Len(xVals) -> YDom]
    /\ InitRest

\* The first derivatives handed to computeHermitePolyCoefficients: up to 3
\* points any array over -1/2, 0 and 1, above that the arrays that
\* alternate between two of these values.
DerivativeValues == {Rat(-1, 2), NumOf(0), NumOf(1)}
DerivativeArrays(n) ==
    IF n <= 3 THEN [1..n -> DerivativeValues]
    ELSE {[i \in 1..n |-> IF i % 2 = 1 THEN a ELSE b] : a, b \in DerivativeValues}

\* The arguments of a regression pass whose windows are followed: 3 to
\* MaxWindowLen points with non-decreasing x, no weights or any weights over
\* 0 and 1 (the combined weights of a pass), and a bandwidthFraction that is
\* left out, 1/2, 1 or NaN.
WindowXs(n) == {Numbers(s) : s \in {t \in [1..n -> 0..MaxWindowX] : NonDecreasing(t)}}
BandwidthFractions == {Undefined, Rat(1, 2), NumOf(1), NaN}

WindowParms(n) ==
    {[DefaultParms EXCEPT !.weights = w, !.bandwidthFraction = b] :
         w \in {NoWeights} \cup {Weights(a) : a \in WeightArrays(n)},
         b \in BandwidthFractions}

InitWindow ==
    /\ \E n \in 3..MaxWindowLen :
          /\ xVals \in WindowXs(n)
          /\ yVals = Ones(n)
          /\ parms \in WindowParms(n)
    /\ InitSmoothRest

\* Noise-free linear data for smooth in floats: equidistant x from a start
\* and a step, y = a * x + b, all of them numbers a float holds exactly.
LinearGrids ==
    {<<NumOf(0), NumOf(1)>>, <<NumOf(1), NumOf(1)>>, <<NumOf(8192), NumOf(1)>>,
     <<NumOf(0), Rat(1, 2 ^ 28)>>, <<NumOf(1), Rat(1, 2 ^ 28)>>}
LinearSlopes == {NumOf(0), NumOf(1), NumOf(2)}
LinearIntercepts == {NumOf(0), NumOf(1)}

Grid(g, n) == [i \in 1..n |-> Add(g[1], Mul(NumOf(i - 1), g[2]))]
Line(a, b, xv) == [i \in 1..Len(xv) |-> Add(Mul(a, xv[i]), b)]

\* Default parameters, with and (for the first grid) without a diagInfo
\* object.
InitLinear ==
    /\ \E n \in 3..MaxLinearLen, g \in LinearGrids, a \in LinearSlopes, b \in LinearIntercepts :
          /\ xVals = Grid(g, n)
          /\ yVals = Line(a, b, xVals)
          /\ parms \in {[DefaultParms EXCEPT !.diagInfo = StaleDiagInfo]}
                       \cup (IF g = <<NumOf(0), NumOf(1)>> /\ n = 3 THEN {DefaultParms} ELSE {})
    /\ InitSmoothRest

----------------------------------------------------------------------------
(* The caller's steps.                                                     *)

CallerX == CallerArray("xVals", xVals)
CallerY == CallerArray("yVals", yVals)

Return(name, m, result) ==
    /\ pc = "start"
    /\ entry' = name
    /\ method' = m
    /\ f' = result
    /\ pc' = "returned"
    /\ UNCHANGED <<xVals, yVals, q, r, writes, parms>>

CoefficientsResult(sc) ==
    IF sc.err # "" THEN Failed(sc.err)
    ELSE Returned("coeffs", NoArray, NoArray, sc.coeffs, NaN, 0)

CallComputeLinearPolyCoefficients ==
    Return("computeLinearPolyCoefficients", "",
           CoefficientsResult(computeLinearPolyCoefficients(xVals, yVals)))

CallComputeCubicPolyCoefficients ==
    Return("computeCubicPolyCoefficients", "",
           CoefficientsResult(computeCubicPolyCoefficients(xVals, yVals)))

CallComputeAkimaPolyCoefficients ==
    Return("computeAkimaPolyCoefficients", "",
           CoefficientsResult(computeAkimaPolyCoefficients(xVals, yVals)))

CallCreateLinearInterpolator ==
    Return("createLinearInterpolator", "", createLinearInterpolator(CallerX, CallerY))

CallCreateCubicSplineInterpolator ==
    Return("createCubicSplineInterpolator", "",
           createCubicSplineInterpolator(CallerX, CallerY))

\* computeAkimaPolyCoefficients with its assignments to firstDerivatives and
\* the divisors of its differences kept beside the result.
CallComputeAkimaPolyCoefficientsBySteps ==
    \E sc \in {computeAkimaPolyCoefficients(xVals, yVals)} :
        Return("computeAkimaPolyCoefficients", "",
               [err |-> sc.err, kind |-> IF sc.err = "" THEN "coeffs" ELSE "none",
                coeffs |-> sc.coeffs,
                steps |-> IF sc.err = "" THEN akimaDerivativeSteps(xVals, yVals) ELSE <<>>,
                firstDerivatives |-> IF sc.err = "" THEN akimaFirstDerivatives(xVals, yVals)
                                     ELSE <<>>])

\* computeHermitePolyCoefficients with the caller's first derivatives.
CallComputeHermitePolyCoefficients ==
    \E fd \in DerivativeArrays(Len(xVals)) :
        \E sc \in {computeHermitePolyCoefficients(xVals, yVals, fd)} :
            Return("computeHermitePolyCoefficients", "",
                   [err |-> sc.err, kind |-> IF sc.err = "" THEN "coeffs" ELSE "none",
                    coeffs |-> sc.coeffs, steps |-> <<>>, firstDerivatives |-> fd])

CallCreateAkimaSplineInterpolator ==
    Return("createAkimaSplineInterpolator", "",
           createAkimaSplineInterpolator(CallerX, CallerY))

CallCreateNearestNeighborInterpolator ==
    Return("createNearestNeighborInterpolator", "",
           createNearestNeighborInterpolator(CallerX, CallerY))

CallCreateInterpolator ==
    \E m \in Methods :
        /\ m = "loess" => ~RunsRegression(xVals, yVals)
        /\ Return("createInterpolator", m, createInterpolator(m, CallerX, CallerY))

CallCreateInterpolatorWithFallback ==
    \E m \in Methods :
        /\ m = "loess" => ~RunsRegression(xVals, yVals)
        /\ Return("createInterpolatorWithFallback", m,
                  createInterpolatorWithFallback(m, CallerX, CallerY))

CallCompute ==
    \/ CallComputeLinearPolyCoefficients
    \/ CallComputeCubicPolyCoefficients
    \/ CallComputeAkimaPolyCoefficients

CallCreate ==
    \/ CallCreateLinearInterpolator
    \/ CallCreateCubicSplineInterpolator
    \/ CallCreateAkimaSplineInterpolator
    \/ CallCreateNearestNeighborInterpolator
    \/ CallCreateInterpolator
    \/ CallCreateInterpolatorWithFallback

IsFunction(fn) == fn.err = "" /\ fn.kind \in {"poly", "nn", "nan", "first", "const"}

\* The caller evaluates the returned function at x: for the first time, or
\* once more.
Evaluation(x) ==
    /\ IsFunction(f)
    /\ q' = x
    /\ r' = Apply(f, x, xVals, yVals)
    /\ pc' = "evaluated"
    /\ UNCHANGED <<xVals, yVals, entry, method, f, writes, ref, parms>>

Evaluate == \E x \in QueriesFor(xVals) : pc = "returned" /\ Evaluation(x)

EvaluateAgain == \E x \in QueriesFor(xVals) : pc = "evaluated" /\ Evaluation(x)

\* The caller writes v to element i of one of its two arrays.
WriteX(i, v) ==
    /\ pc \in {"returned", "evaluated"}
    /\ writes < MaxWrites
    /\ xVals' = [xVals EXCEPT ![i] = v]
    /\ writes' = writes + 1
    /\ UNCHANGED <<yVals, entry, method, f, q, r, pc, ref, parms>>

WriteY(i, v) ==
    /\ pc \in {"returned", "evaluated"}
    /\ writes < MaxWrites
    /\ yVals' = [yVals EXCEPT ![i] = v]
    /\ writes' = writes + 1
    /\ UNCHANGED <<xVals, entry, method, f, q, r, pc, ref, parms>>

\* The values the caller writes: one beyond every knot, and NaN.
WrittenValues == {NumOf(MaxLen + 2), NaN}

CallerWrite ==
    \/ \E i \in 1..Len(xVals), v \in WrittenValues : WriteX(i, v)
    \/ \E i \in 1..Len(yVals), v \in WrittenValues : WriteY(i, v)

\* The sequence checks of Utils.ts, called directly on xVals: f.err is the
\* error thrown, "" when the check returns.
CallCheckStrictlyIncreasing ==
    Return("checkStrictlyIncreasing", "", Failed(checkStrictlyIncreasing(xVals)))

CallCheckMonotonicallyIncreasing ==
    Return("checkMonotonicallyIncreasing", "", Failed(checkMonotonicallyIncreasing(xVals)))

CallCheckFinite ==
    Return("checkFinite", "", Failed(checkFinite(xVals)))

\* binarySearch(xVals, key), called directly.
CallBinarySearch ==
    \E key \in Queries(MaxKey) :
        /\ pc = "start"
        /\ entry' = "binarySearch"
        /\ q' = key
        /\ r' = binarySearch(xVals, key)
        /\ pc' = "searched"
        /\ UNCHANGED <<xVals, yVals, method, f, writes, ref, parms>>

\* smooth(parms), called directly: f is what it returned, with the history
\* of its passes, and the diagInfo object holds what smooth wrote to it.
CallSmooth ==
    LET sm == smooth(xVals, yVals, parms)
    IN  /\ pc = "start"
        /\ sm.err # "Unrepresentable"
        /\ entry' = "smooth"
        /\ f' = sm
        /\ pc' = "returned"
        /\ parms' = IF parms.diagInfo.defined /\ f'.diag.defined
                    THEN [parms EXCEPT !.diagInfo.robustnessIters = f'.diag.robustnessIters,
                                       !.diagInfo.secondLastMedianResidual =
                                           f'.diag.secondLastMedianResidual,
                                       !.diagInfo.lastMedianResidual = f'.diag.lastMedianResidual,
                                       !.diagInfo.robustnessWeights = f'.diag.robustnessWeights]
                    ELSE parms
        /\ UNCHANGED <<xVals, yVals, method, q, r, writes>>

\* The fields createLoessInterpolator and the smooth it calls write to the
\* diagInfo object d, kn being what loessKnots returned.
loessDiagInfo(d, kn) ==
    LET d1 == IF kn.sm.diag.defined
              THEN [d EXCEPT !.robustnessIters = kn.sm.diag.robustnessIters,
                             !.secondLastMedianResidual = kn.sm.diag.secondLastMedianResidual,
                             !.lastMedianResidual = kn.sm.diag.lastMedianResidual,
                             !.robustnessWeights = kn.sm.diag.robustnessWeights]
              ELSE d
    IN  IF kn.sm.err = ""
        THEN [d1 EXCEPT !.fitYVals = Weights(kn.sm.fit), !.knotFilter = kn.knotFilter,
                        !.knotXVals = Weights(kn.knotXVals), !.knotYVals = Weights(kn.knotYVals)]
        ELSE d1

\* createLoessInterpolator(parms), called directly: f is the function it
\* returned or the error thrown by smooth or by the interpolator's
\* constructor, and the diagInfo object holds what was written to it.
CallCreateLoessInterpolator ==
    /\ pc = "start"
    /\ \E kn \in {loessKnots(xVals, yVals, parms)} :
        /\ kn.sm.err # "Unrepresentable"
        /\ entry' = "createLoessInterpolator"
        /\ f' = loessInterpolator(kn, parms)
        /\ pc' = "returned"
        /\ parms' = IF parms.diagInfo.defined
                    THEN [parms EXCEPT !.diagInfo = loessDiagInfo(parms.diagInfo, kn)]
                    ELSE parms
        /\ UNCHANGED <<xVals, yVals, method, q, r, writes>>

\* The caller calls smooth or createLoessInterpolator, and calls it once
\* more with the same arrays and parameters and with another diagInfo
\* object: none, an empty one, a filled one, or the one the first call has
\* written to.  smooth is the first statement of createLoessInterpolator.
\* ref keeps what the first call returned or threw and the object it wrote to.
CallWithDiagInfo ==
    /\ pc \in {"start", "returned"}
    /\ \E e \in (IF pc = "start" THEN {"smooth", "createLoessInterpolator"} ELSE {entry}) :
          \E d \in (IF pc = "start" THEN {parms.diagInfo} ELSE DiagInfos \cup {parms.diagInfo}) :
             \E kn \in {loessKnots(xVals, yVals, [parms EXCEPT !.diagInfo = d])} :
                /\ kn.sm.err # "Unrepresentable"
                /\ entry' = e
                /\ f' = IF e = "smooth" THEN kn.sm
                        ELSE loessInterpolator(kn, [parms EXCEPT !.diagInfo = d])
                /\ parms' = IF ~d.defined THEN [parms EXCEPT !.diagInfo = d]
                            ELSE IF e = "createLoessInterpolator"
                            THEN [parms EXCEPT !.diagInfo = loessDiagInfo(d, kn)]
                            ELSE IF kn.sm.diag.defined
                            THEN [parms EXCEPT !.diagInfo =
                                     [d EXCEPT !.robustnessIters = kn.sm.diag.robustnessIters,
                                               !.secondLastMedianResidual =
                                                   kn.sm.diag.secondLastMedianResidual,
                                               !.lastMedianResidual =
                                                   kn.sm.diag.lastMedianResidual,
                                               !.robustnessWeights =
                                                   kn.sm.diag.robustnessWeights]]
                            ELSE [parms EXCEPT !.diagInfo = d]
    /\ ref' = IF pc = "start" THEN ref ELSE [first |-> f, diagInfo |-> parms.diagInfo]
    /\ pc' = IF pc = "start" THEN "returned" ELSE "repeated"
    /\ UNCHANGED <<xVals, yVals, method, q, r, writes>>

\* createKnotFilter(xVals, fitYVals, minXDistance) and the two calls of
\* filterNumberArray that follow it, with yVals as the fitted values: f
\* holds the filter and the knots.
CallCreateKnotFilter ==
    /\ pc = "start"
    /\ Len(yVals) = Len(xVals)
    /\ \E knotFilter \in {createKnotFilter(xVals, yVals,
                           OrDefault(parms.minXDistance, getDefaultMinXDistance(xVals)))} :
        /\ entry' = "createKnotFilter"
        /\ f' = [err |-> "", kind |-> "knots", knotFilter |-> knotFilter,
                 knotXVals |-> filterNumberArray(xVals, knotFilter),
                 knotYVals |-> filterNumberArray(yVals, knotFilter)]
        /\ pc' = "filtered"
        /\ UNCHANGED <<xVals, yVals, method, q, r, writes, parms>>

\* What a call of smooth in floats writes to the caller's diagInfo object.
smoothDiagInfo64(p, diag) ==
    IF p.diagInfo.defined /\ diag.defined
    THEN [p EXCEPT !.diagInfo.robustnessIters = diag.robustnessIters,
                   !.diagInfo.secondLastMedianResidual = diag.secondLastMedianResidual,
                   !.diagInfo.lastMedianResidual = diag.lastMedianResidual,
                   !.diagInfo.robustnessWeights = diag.robustnessWeights]
    ELSE p

\* smooth({xVals, yVals, ...parms}) computed in floats.
CallSmooth64 ==
    /\ pc = "start"
    /\ \E sm \in {smooth64(F64Array(xVals), F64Array(yVals), parms)} :
          /\ sm.err # "Unrepresentable"
          /\ entry' = "smooth"
          /\ f' = sm
          /\ pc' = "returned"
          /\ parms' = smoothDiagInfo64(parms, sm.diag)
    /\ UNCHANGED <<xVals, yVals, method, q, r, writes>>

\* smooth({xVals, yVals: fitYVals, ...parms}): the fitted values are fed
\* back in.
ReapplySmooth64 ==
    /\ pc = "returned"
    /\ f.kind = "fit64"
    /\ f.err = ""
    /\ \E sm \in {smooth64(F64Array(xVals), f.fit, parms)} :
          /\ sm.err # "Unrepresentable"
          /\ r' = sm
          /\ pc' = "reapplied"
          /\ parms' = smoothDiagInfo64(parms, sm.diag)
    /\ UNCHANGED <<xVals, yVals, entry, method, f, q, writes>>

\* calculateSequenceRegression(xVals, yVals, weights, bandwidthFraction,
\* ...) step by step.  f holds the pass: the error thrown, n2, the
\* bandwidth, the window bw, the point i being fitted and, as history, the
\* initial window, the window with which moveBandwidthInterval was entered
\* for point i, the number of shifts made, the indices of xVals read by the
\* window code, and for every fitted point its window and maxDist.
\* Lines 148 to 154: n2, the bandwidth and the initial window.
BeginSequenceRegression ==
    /\ pc = "start"
    /\ \E st \in {sequenceRegressionStart(
                     xVals, parms.weights,
                     OrDefault(parms.bandwidthFraction, DefaultBandwidthFraction))} :
          /\ f' = [err |-> st.err, kind |-> "window", n2 |-> st.n2,
                   bandwidthInPoints |-> st.bandwidthInPoints, bw |-> st.bw, i |-> 0,
                   initial |-> st.bw, entered |-> st.bw, shifts |-> 0, reads |-> {},
                   windows |-> <<>>]
          /\ pc' = IF st.err # "" THEN "failed" ELSE "moving"
    /\ entry' = "calculateSequenceRegression"
    /\ UNCHANGED <<xVals, yVals, method, q, r, writes, parms>>

\* moveBandwidthInterval, lines 233 to 238: the loop condition fails and
\* the window is shifted.
ShiftBandwidthInterval ==
    /\ pc = "moving"
    /\ ~moveBandwidthStops(f.bw, At(xVals, f.i), xVals, parms.weights)
    /\ f' = [f EXCEPT !.bw = moveBandwidthShift(f.bw, parms.weights),
                      !.shifts = @ + 1,
                      !.reads = @ \cup moveBandwidthReads(f.bw, xVals, parms.weights)]
    /\ UNCHANGED <<xVals, yVals, entry, method, q, r, pc, writes, parms>>

\* moveBandwidthInterval, lines 233 to 236: the loop condition holds and
\* the function returns.
LeaveBandwidthInterval ==
    /\ pc = "moving"
    /\ moveBandwidthStops(f.bw, At(xVals, f.i), xVals, parms.weights)
    /\ f' = [f EXCEPT !.reads = @ \cup moveBandwidthReads(f.bw, xVals, parms.weights)]
    /\ pc' = "moved"
    /\ UNCHANGED <<xVals, yVals, entry, method, q, r, writes, parms>>

\* calculateLocalLinearRegression for point i, lines 167 to 173 (what
\* follows them does not touch the window), and the i++ of line 156.
FitPoint ==
    /\ pc = "moved"
    /\ \E maxDist0 \in {localMaxDist(xVals, At(xVals, f.i), f.bw.iLeft, f.bw.iRight)} :
          /\ f' = [f EXCEPT !.err = IF Lt(maxDist0, NumOf(0)) THEN "InconsistentBandwidth"
                                    ELSE "",
                            !.reads = @ \cup {f.bw.iLeft, f.bw.iRight},
                            !.windows = Append(@, [iLeft |-> f.bw.iLeft, iRight |-> f.bw.iRight,
                                                   entered |-> f.entered,
                                                   maxDist |-> IF EqNum(maxDist0, NumOf(0))
                                                               THEN NumOf(1) ELSE maxDist0]),
                            !.entered = f.bw,
                            !.i = @ + 1]
          /\ pc' = IF Lt(maxDist0, NumOf(0)) THEN "failed"
                   ELSE IF f.i + 1 < Len(xVals) THEN "moving"
                   ELSE "done"
    /\ UNCHANGED <<xVals, yVals, entry, method, q, r, writes, parms>>

----------------------------------------------------------------------------
(* Specifications.                                                         *)

\* Every entry point on valid point sequences, then one evaluation.
Next ==
    \/ (CallCompute /\ UNCHANGED ref)
    \/ (CallCreate /\ UNCHANGED ref)
    \/ Evaluate

Spec == InitPoints /\ [][Next]_vars

\* Every entry point, and binarySearch itself, on arrays of any two lengths
\* and with faults.
NextInputs ==
    \/ (CallCompute /\ UNCHANGED ref)
    \/ (CallCreate /\ UNCHANGED ref)
    \/ CallBinarySearch
    \/ Evaluate

SpecInputs == InitInputs /\ [][NextInputs]_vars

\* binarySearch on strictly increasing arrays.
NextSearch == CallBinarySearch

SpecSearch == InitSearch /\ [][NextSearch]_vars

\* The sequence checks and the constructors on arrays with any content.
NextChecks ==
    \/ (CallCheckStrictlyIncreasing /\ UNCHANGED ref)
    \/ (CallCheckMonotonicallyIncreasing /\ UNCHANGED ref)
    \/ (CallCheckFinite /\ UNCHANGED ref)
    \/ (CallCreate /\ UNCHANGED ref)

SpecChecks == InitChecks /\ [][NextChecks]_vars

\* The caller writes to its arrays after the call and evaluates the returned
\* function any number of times; ref records the function's values at the
\* moment it was returned.
ValuesNow(fn) ==
    IF IsFunction(fn) THEN [x \in QueriesFor(xVals) |-> Apply(fn, x, xVals, yVals)]
    ELSE <<>>

NextWrites ==
    \/ (CallCreate /\ ref' = ValuesNow(f'))
    \/ CallerWrite
    \/ Evaluate
    \/ EvaluateAgain

SpecWrites == InitWrites /\ [][NextWrites]_vars

\* smooth on arrays with duplicates, weights and every optional parameter.
NextSmooth ==
    \/ (CallSmooth /\ UNCHANGED ref)

SpecSmooth == InitSmooth /\ [][NextSmooth]_vars

\* createLoessInterpolator with every kind of minXDistance, followed by one
\* evaluation, and the knot filter on fitted values of any content.
NextLoess ==
    \/ (CallCreateLoessInterpolator /\ UNCHANGED ref)
    \/ (CallCreateKnotFilter /\ UNCHANGED ref)
    \/ Evaluate

SpecLoess == InitLoess /\ [][NextLoess]_vars

\* smooth in floats on noise-free linear data, then on its own output.
NextLinear ==
    \/ (CallSmooth64 /\ UNCHANGED ref)
    \/ (ReapplySmooth64 /\ UNCHANGED ref)

SpecLinear == InitLinear /\ [][NextLinear]_vars

\* The Akima coefficients with their derivative assignments, and the
\* Hermite coefficients for derivatives of the caller's.
NextAkima ==
    \/ (CallComputeAkimaPolyCoefficientsBySteps /\ UNCHANGED ref)
    \/ (CallComputeHermitePolyCoefficients /\ UNCHANGED ref)

SpecAkima == InitAkima /\ [][NextAkima]_vars

\* smooth and createLoessInterpolator, each called twice with different
\* diagInfo objects.
NextDiag == CallWithDiagInfo

SpecDiag == InitDiag /\ [][NextDiag]_vars

\* One regression pass, a step at a time.  The code runs on until it has
\* returned or thrown: there is nothing it waits for.
NextWindow ==
    \/ (BeginSequenceRegression /\ UNCHANGED ref)
    \/ (ShiftBandwidthInterval /\ UNCHANGED ref)
    \/ (LeaveBandwidthInterval /\ UNCHANGED ref)
    \/ (FitPoint /\ UNCHANGED ref)

SpecWindow == InitWindow /\ [][NextWindow]_vars /\ WF_vars(NextWindow)

----------------------------------------------------------------------------
(* Properties.                                                             *)

InterpolatorEntries ==
    {"createLinearInterpolator", "createCubicSplineInterpolator",
     "createAkimaSplineInterpolator", "createNearestNeighborInterpolator"}

\* C1: on a valid point sequence (strictly increasing x, finite y of the
\* same length, at least the method's minimum of points) the function
\* returned by the linear, cubic, Akima or nearest-neighbor constructor
\* returns y[i] at x[i], for every knot i, the last one included.
C1_KnotValues ==
    (pc = "evaluated" /\ entry \in InterpolatorEntries /\ f.kind \in {"poly", "nn", "first"})
        => \A i \in 1..Len(xVals) :
              q = xVals[i] => r.err = "" /\ r.val = yVals[i]

\* The last knot of an Akima spline over 0/1 data, reached through the last
\* segment's polynomial at a non-zero local coordinate.
C1_Witness ==
    /\ pc = "evaluated"
    /\ entry = "createAkimaSplineInterpolator"
    /\ Len(xVals) = 5
    /\ q = xVals[5]
    /\ r.seg = 3
    /\ yVals[5] = NumOf(1) /\ yVals[4] = NumOf(0) /\ yVals[3] = NumOf(1)
    /\ Len(f.coeffs[4]) = 3

\* C2: on a valid point sequence createInterpolatorWithFallback does not
\* fail for a known method and degrades the method by the number n of
\* points: below 2 points every method gives the constant function (y[0]
\* for one point, 0 for none); "akima" with 3 or 4 points returns the values
\* of createCubicSplineInterpolator(x, y); "akima" and "cubic" with 2 points
\* return the values of createLinearInterpolator(x, y); every query is
\* answered alike, the failing ones (NaN) included.
C2_FallbackDegrades ==
    (entry = "createInterpolatorWithFallback" /\ pc \in {"returned", "evaluated"})
        => LET n == Len(xVals)
               SameAs(g) == /\ f.err = ""
                            /\ g.err = ""
                            /\ pc = "evaluated" => r = Apply(g, q, xVals, yVals)
           IN  /\ method \in MethodNames => f.err = ""
               /\ n = 0 => (pc = "evaluated" => r.err = "" /\ r.val = NumOf(0))
               /\ n = 1 => (pc = "evaluated" => r.err = "" /\ r.val = yVals[1])
               /\ (method = "akima" /\ n \in {3, 4})
                     => SameAs(createCubicSplineInterpolator(CallerX, CallerY))
               /\ (method \in {"akima", "cubic"} /\ n = 2)
                     => SameAs(createLinearInterpolator(CallerX, CallerY))

\* "akima" with exactly 4 points, answered by a cubic spline segment of
\* degree 3 at a query strictly inside the second segment.
C2_Witness ==
    /\ entry = "createInterpolatorWithFallback"
    /\ method = "akima"
    /\ Len(xVals) = 4
    /\ pc = "evaluated"
    /\ f.kind = "poly"
    /\ r.seg = 1
    /\ Len(f.coeffs[2]) = 4
    /\ Lt(xVals[2], q) /\ Lt(q, xVals[3])

\* C3: whatever the caller writes to xVals and yVals after the call, and
\* however often the returned function was evaluated before, the function
\* returns at x what it returned at x when it was created (ref[x]): the same
\* value or the same error.  This covers the linear, cubic, Akima and
\* nearest-neighbor functions and the fallback's constant functions.
C3_ValuesFixedAtCreation ==
    pc = "evaluated" => r = ref[q]

\* A cubic spline evaluated between two knots after the caller has
\* overwritten a knot of its x array.
C3_Witness ==
    /\ pc = "evaluated"
    /\ writes >= 1
    /\ entry = "createCubicSplineInterpolator"
    /\ f.kind = "poly"
    /\ xVals # f.xs.val
    /\ r.err = "" /\ r.seg = 1 /\ q = Rat(3, 2)

\* The largest index i with k[i] <= x, or -1 when there is none.
LargestAtOrBelow(k, x) ==
    LET S == {i \in 0..(Len(k) - 1) : Le(At(k, i), x)}
    IN  IF S = {} THEN -1 ELSE CHOOSE i \in S : \A j \in S : j <= i

\* C4: a piecewise polynomial function over knots k[0] < ... < k[m] (m
\* segments), evaluated at a query x that is not NaN, uses the segment
\* s = the largest i with k[i] <= x, clamped into 0..m-1, and returns that
\* segment's polynomial at x - k[s]; so a query below k[0] uses segment 0, a
\* query at or above k[m] uses segment m-1, and s is never outside 0..m-1.
C4_SegmentChoice ==
    (pc = "evaluated" /\ f.kind = "poly" /\ ~isNaN(q))
        => LET k == f.xs.val
               m == Len(f.coeffs)
               s == MaxI(0, MinI(LargestAtOrBelow(k, q), m - 1))
           IN  /\ Len(k) = m + 1
               /\ r.err = ""
               /\ r.seg = s
               /\ r.seg \in 0..(m - 1)
               /\ r.val = evaluatePoly(f.coeffs[s + 1], Sub(q, At(k, s)))
               /\ Lt(q, At(k, 0)) => r.seg = 0
               /\ Ge(q, At(k, m)) => r.seg = m - 1

\* A finite query strictly inside the second of four segments: not a knot,
\* so the segment comes from the insertion point of the search.
C4_Witness ==
    /\ pc = "evaluated"
    /\ f.kind = "poly"
    /\ Len(f.coeffs) = 4
    /\ IsFin(q)
    /\ Lt(At(f.xs.val, 1), q) /\ Lt(q, At(f.xs.val, 2))
    /\ r.seg = 1

\* The index of the knot whose y a nearest-neighbor function over the knots
\* k is to return at x (x not NaN): the knot equal to x; the first knot
\* below the domain and the last knot above it; between two adjacent knots
\* L < x < R the left one when 2 * (x - L) < R - L, else the right one.
NearestKnot(k, x) ==
    LET n == Len(k)
        below == LargestAtOrBelow(k, x)
    IN  IF below = -1 THEN 0
        ELSE IF EqNum(At(k, below), x) \/ below = n - 1 THEN below
        ELSE IF Lt(Mul(NumOf(2), Sub(x, At(k, below))),
                   Sub(At(k, below + 1), At(k, below)))
             THEN below ELSE below + 1

\* C5: a nearest-neighbor function over 2 or more strictly increasing knots
\* returns, at a query that is not NaN, the y of the knot NearestKnot names:
\* the knot's own y at a knot, y[0] below the first knot, y[n-1] above the
\* last, and between adjacent knots the y of the strictly closer knot, the
\* right knot's y at the exact midpoint.
C5_NearestNeighbor ==
    (pc = "evaluated" /\ f.kind = "nn" /\ ~isNaN(q))
        => /\ r.err = ""
           /\ r.val = At(yVals, NearestKnot(xVals, q))
           /\ (xVals = <<NumOf(0), NumOf(10)>> /\ yVals = <<NumOf(0), NumOf(1)>>)
                 => /\ q = NumOf(4) => r.val = NumOf(0)
                    /\ q = NumOf(5) => r.val = NumOf(1)
                    /\ q = NumOf(6) => r.val = NumOf(1)

\* The exact midpoint 5 of the knots (0, 0) and (10, 1): the right knot's y.
C5_Witness ==
    /\ pc = "evaluated"
    /\ entry = "createNearestNeighborInterpolator"
    /\ xVals = <<NumOf(0), NumOf(10)>>
    /\ yVals = <<NumOf(0), NumOf(1)>>
    /\ q = NumOf(5)
    /\ r.val = NumOf(1)

\* C6: createNearestNeighborInterpolator with no point returns a function
\* that is NaN at every query, and with exactly one point a function that is
\* that point's y at every query; neither call fails, whatever the single x
\* is (NaN and the infinities included).
C6_NearestNeighborFewPoints ==
    (entry = "createNearestNeighborInterpolator" /\ pc \in {"returned", "evaluated"}
        /\ Len(xVals) = Len(yVals) /\ Len(xVals) <= 1)
        => /\ f.err = ""
           /\ pc = "evaluated"
                => /\ r.err = ""
                   /\ Len(xVals) = 0 => isNaN(r.val)
                   /\ Len(xVals) = 1 => r.val = yVals[1]

\* One point whose x is NaN, evaluated at NaN: the point's y, no error.
C6_Witness ==
    /\ entry = "createNearestNeighborInterpolator"
    /\ pc = "evaluated"
    /\ Len(xVals) = 1 /\ Len(yVals) = 1
    /\ isNaN(xVals[1])
    /\ isNaN(q)
    /\ r.err = "" /\ r.val = NumOf(0)

\* a[i - 1] < a[i] for every adjacent pair.
StrictlyIncreasing(a) == \A i \in 2..Len(a) : Lt(a[i - 1], a[i])

\* C7: for a strictly increasing array a and a key that is not NaN,
\* binarySearch(a, key) ends after at most a.length probes without an error;
\* it returns the index of the key when the key is present and -(p + 1)
\* otherwise, p being the number of elements less than the key.  For
\* a = [1, 3, 5, 7]: 5 gives 2, 4 gives -3, 0 gives -1, 8 gives -5; an empty
\* array gives -1.
C7_BinarySearch ==
    (pc = "searched" /\ StrictlyIncreasing(xVals) /\ ~isNaN(q))
        => LET p == Cardinality({i \in 1..Len(xVals) : Lt(xVals[i], q)})
               present == \E i \in 1..Len(xVals) : EqNum(xVals[i], q)
           IN  /\ r.err = ""
               /\ Len(r.probes) <= Len(xVals)
               /\ present => r.val \in 0..(Len(xVals) - 1) /\ At(xVals, r.val) = q
               /\ ~present => r.val = -(p + 1)
               /\ xVals = <<>> => r.val = -1
               /\ xVals = <<NumOf(1), NumOf(3), NumOf(5), NumOf(7)>>
                     => /\ q = NumOf(5) => r.val = 2
                        /\ q = NumOf(4) => r.val = -3
                        /\ q = NumOf(0) => r.val = -1
                        /\ q = NumOf(8) => r.val = -5

\* The search for 4 in [1, 3, 5, 7]: absent, insertion point 2.
C7_Witness ==
    /\ pc = "searched"
    /\ xVals = <<NumOf(1), NumOf(3), NumOf(5), NumOf(7)>>
    /\ q = NumOf(4)
    /\ r.err = "" /\ r.val = -3
    /\ r.probes = <<1, 2>>

\* C8: binarySearch fails with InvalidComparison whenever one of the
\* comparisons it makes involves NaN: the key is NaN and an element is
\* inspected, or an inspected element is NaN.  So a linear, cubic or Akima
\* function, or a nearest-neighbor function over 2 or more points, evaluated
\* at NaN fails with that error.
C8_InvalidComparison ==
    /\ pc = "searched"
          => LET inspected == {At(xVals, r.probes[j]) : j \in 1..Len(r.probes)}
             IN  ((isNaN(q) /\ inspected # {}) \/ (\E v \in inspected : isNaN(v)))
                    => r.err = "InvalidComparison"
    /\ (pc = "evaluated" /\ f.kind \in {"poly", "nn"} /\ isNaN(q))
          => r.err = "InvalidComparison"

\* A finite key compared with a NaN element that is not the first element
\* inspected.
C8_Witness ==
    /\ pc = "searched"
    /\ IsFin(q)
    /\ Len(r.probes) >= 2
    /\ isNaN(At(xVals, r.probes[Len(r.probes)]))
    /\ r.err = "InvalidComparison"

CoefficientEntries ==
    {"computeLinearPolyCoefficients", "computeCubicPolyCoefficients",
     "computeAkimaPolyCoefficients"}

\* The minimum number of points of the method behind an entry point.
MinPoints(e) ==
    IF e \in {"computeLinearPolyCoefficients", "createLinearInterpolator"} THEN 2
    ELSE IF e \in {"computeCubicPolyCoefficients", "createCubicSplineInterpolator"} THEN 3
    ELSE 5

\* C9: a call of a linear, cubic or Akima coefficient or interpolator
\* function with n points, n below the method's minimum (2, 3, 5), fails
\* with TooFewPoints and returns nothing; a call with at least the minimum
\* number of points does not fail with TooFewPoints, and succeeds when the
\* points are valid (x strictly increasing and finite).
C9_TooFewPoints ==
    (pc # "start"
        /\ entry \in CoefficientEntries \cup (InterpolatorEntries \ {"createNearestNeighborInterpolator"}))
        => LET n == Len(xVals)
           IN  /\ (Len(yVals) = n /\ n < MinPoints(entry))
                     => f.err = "TooFewPoints" /\ f.kind = "none"
               /\ n >= MinPoints(entry) => f.err # "TooFewPoints"
               /\ (Len(yVals) = n /\ n >= MinPoints(entry)
                     /\ checkStrictlyIncreasing(xVals) = "")
                     => f.err = ""

\* createAkimaSplineInterpolator with exactly 4 valid points.
C9_Witness ==
    /\ entry = "createAkimaSplineInterpolator"
    /\ pc = "returned"
    /\ xVals = Ramp(4) /\ yVals = ZigZag(4)
    /\ f.err = "TooFewPoints"

\* C10: every entry point that constructs an interpolator, for every method
\* name, fails with DimensionMismatch when xVals and yVals differ in length.
C10_DimensionMismatch ==
    (pc # "start"
        /\ entry \in InterpolatorEntries \cup {"createInterpolator", "createInterpolatorWithFallback"}
        /\ method \in MethodNames \cup {""}
        /\ Len(xVals) # Len(yVals))
        => f.err = "DimensionMismatch"

\* C11: checkStrictlyIncreasing(a) fails, with InvalidSequence, exactly when
\* some element of a is not finite or some a[i] <= a[i-1];
\* checkMonotonicallyIncreasing(a) fails exactly when some element is not
\* finite or some a[i] < a[i-1], so equal neighbours pass; both accept finite
\* arrays of length 0 and 1; and the linear, cubic, Akima and 2+-point
\* nearest-neighbor constructors reject (with InvalidSequence when the
\* lengths and the number of points are in order) every xVals that
\* checkStrictlyIncreasing rejects.
C11_SequenceChecks ==
    LET nonFinite == \E i \in 1..Len(xVals) : xVals[i] \in {NaN, PInf, NInf}
        notAbove  == \E i \in 2..Len(xVals) : Le(xVals[i], xVals[i - 1])
        below     == \E i \in 2..Len(xVals) : Lt(xVals[i], xVals[i - 1])
    IN  /\ entry = "checkStrictlyIncreasing"
              => /\ f.err \in {"", "InvalidSequence"}
                 /\ f.err = "InvalidSequence" <=> (nonFinite \/ notAbove)
                 /\ (Len(xVals) <= 1 /\ ~nonFinite) => f.err = ""
        /\ entry = "checkMonotonicallyIncreasing"
              => /\ f.err \in {"", "InvalidSequence"}
                 /\ f.err = "InvalidSequence" <=> (nonFinite \/ below)
                 /\ (Len(xVals) <= 1 /\ ~nonFinite) => f.err = ""
        /\ (entry \in InterpolatorEntries /\ (nonFinite \/ notAbove)
               /\ (entry = "createNearestNeighborInterpolator" => Len(xVals) >= 2))
              => /\ f.err # ""
                 /\ (Len(yVals) = Len(xVals) /\ f.err # "TooFewPoints")
                       => f.err = "InvalidSequence"

\* checkMonotonicallyIncreasing accepts a finite array with two equal
\* neighbours.
C11_Witness ==
    /\ entry = "checkMonotonicallyIncreasing"
    /\ pc = "returned"
    /\ Len(xVals) = 3
    /\ xVals[2] = xVals[1]
    /\ f.err = ""

\* C12: constructing a linear, cubic, Akima or 2+-point nearest-neighbor
\* interpolant from arrays of equal length with enough points and a NaN or
\* infinite entry in xVals or in yVals fails with InvalidSequence, so no
\* function is built from a y value that is not finite.
C12_FiniteValues ==
    (pc # "start" /\ entry \in InterpolatorEntries
        /\ Len(xVals) = Len(yVals)
        /\ Len(xVals) >= (IF entry = "createNearestNeighborInterpolator" THEN 2
                          ELSE MinPoints(entry))
        /\ (checkFinite(xVals) # "" \/ checkFinite(yVals) # ""))
        => f.err = "InvalidSequence"

\* The slope of segment i (1-based) of the caller's points.
Slope(i) == Div(Sub(yVals[i + 1], yVals[i]), Sub(xVals[i + 1], xVals[i]))

\* C13 as stated: for n >= 2 strictly increasing points
\* computeLinearPolyCoefficients returns n-1 arrays, and the array of every
\* segment i is the two-element list [y_i, (y_{i+1}-y_i)/(x_{i+1}-x_i)].
C13_AlwaysTwoElements ==
    (entry = "computeLinearPolyCoefficients" /\ pc = "returned" /\ Len(xVals) >= 2
        /\ Len(yVals) = Len(xVals) /\ checkStrictlyIncreasing(xVals) = "")
        => /\ f.err = ""
           /\ Len(f.coeffs) = Len(xVals) - 1
           /\ \A i \in 1..(Len(xVals) - 1) : f.coeffs[i] = <<yVals[i], Slope(i)>>

\* C13, amended: for n >= 2 strictly increasing points
\* computeLinearPolyCoefficients returns n-1 arrays; the array of segment i
\* is [y_i, m_i] with m_i = (y_{i+1}-y_i)/(x_{i+1}-x_i) when m_i is not 0,
\* and the one-element list [y_i] when m_i is 0 (the trailing zero is
\* trimmed).
C13_LinearCoefficients ==
    (entry = "computeLinearPolyCoefficients" /\ pc = "returned" /\ Len(xVals) >= 2
        /\ Len(yVals) = Len(xVals) /\ checkStrictlyIncreasing(xVals) = "")
        => /\ f.err = ""
           /\ Len(f.coeffs) = Len(xVals) - 1
           /\ \A i \in 1..(Len(xVals) - 1) :
                 f.coeffs[i] = IF EqNum(Slope(i), NumOf(0)) THEN <<yVals[i]>>
                               ELSE <<yVals[i], Slope(i)>>

\* Three points whose first segment rises and whose second segment is flat:
\* a two-element array followed by a one-element array.
C13_Witness ==
    /\ entry = "computeLinearPolyCoefficients"
    /\ pc = "returned"
    /\ Len(xVals) = 3
    /\ f.err = ""
    /\ Len(f.coeffs[1]) = 2
    /\ f.coeffs[2] = <<NumOf(1)>>

\* Coefficient j (0-based) of segment k (1-based) of the returned arrays;
\* a trimmed coefficient is 0.
Coef(k, j) == IF j < Len(f.coeffs[k]) THEN f.coeffs[k][j + 1] ELSE NumOf(0)

\* The width of segment k (1-based).
Width(k) == Sub(xVals[k + 1], xVals[k])

\* Value, first and second derivative of segment k's polynomial at the local
\* coordinate t.
PolyValue(k, t) ==
    Add(Coef(k, 0), Mul(t, Add(Coef(k, 1), Mul(t, Add(Coef(k, 2), Mul(t, Coef(k, 3)))))))
PolyFirst(k, t) ==
    Add(Coef(k, 1), Mul(t, Add(Mul(NumOf(2), Coef(k, 2)), Mul(t, Mul(NumOf(3), Coef(k, 3))))))
PolySecond(k, t) == Add(Mul(NumOf(2), Coef(k, 2)), Mul(NumOf(6), Mul(Coef(k, 3), t)))

\* C14: for n >= 3 strictly increasing points the polynomials returned by
\* computeCubicPolyCoefficients form a natural cubic spline: the second
\* derivative is 0 at the first knot (c of segment 0 is 0) and at the last
\* knot (2c + 6dh = 0 on the last segment), and at every interior knot the
\* value, the first and the second derivative of the left segment at its
\* width equal those of the right segment at 0.
C14_NaturalCubicSpline ==
    (entry = "computeCubicPolyCoefficients" /\ pc = "returned" /\ Len(xVals) >= 3
        /\ Len(yVals) = Len(xVals) /\ checkStrictlyIncreasing(xVals) = ""
        /\ checkFinite(yVals) = "")
        => LET m == Len(xVals) - 1
           IN  /\ f.err = ""
               /\ Len(f.coeffs) = m
               /\ \A k \in 1..m : Len(f.coeffs[k]) \in 1..4
               /\ Coef(1, 2) = NumOf(0)
               /\ PolySecond(m, Width(m)) = NumOf(0)
               /\ \A k \in 1..(m - 1) :
                     /\ PolyValue(k, Width(k)) = PolyValue(k + 1, NumOf(0))
                     /\ PolyFirst(k, Width(k)) = PolyFirst(k + 1, NumOf(0))
                     /\ PolySecond(k, Width(k)) = PolySecond(k + 1, NumOf(0))

\* The four points of examples/example1.js: three segments of degree 3 and
\* a second derivative that is not 0 at the two interior knots.
C14_Witness ==
    /\ entry = "computeCubicPolyCoefficients"
    /\ pc = "returned"
    /\ xVals = <<NumOf(0), NumOf(3), NumOf(7), NumOf(10)>>
    /\ yVals = <<NumOf(1), NumOf(5), NumOf(-3), NumOf(0)>>
    /\ f.err = ""
    /\ \A k \in 1..3 : Len(f.coeffs[k]) = 4
    /\ Coef(2, 2) # NumOf(0) /\ Coef(3, 2) # NumOf(0)

----------------------------------------------------------------------------
(* smooth.                                                                 *)

\* a holds a value that is not finite; a holds a decrease.
HasNonFinite(a) == \E i \in 1..Len(a) : isNaN(a[i]) \/ IsInf(a[i])
HasDecrease(a) == \E i \in 1..(Len(a) - 1) : Lt(a[i + 1], a[i])

\* The faults of the arrays handed to smooth.
InvalidSequenceFault ==
    \/ HasNonFinite(xVals)
    \/ HasDecrease(xVals)
    \/ HasNonFinite(yVals)
    \/ (parms.weights.defined /\ HasNonFinite(parms.weights.val))

DimensionFault ==
    \/ Len(yVals) # Len(xVals)
    \/ (parms.weights.defined /\ Len(parms.weights.val) # Len(xVals))

\* smooth did nothing but fail: no regression pass was run and the diagInfo
\* object holds what it held before the call.
FailedUntouched(err) ==
    /\ f.err = err
    /\ f.passes = <<>>
    /\ f.fit = <<>>
    /\ parms.diagInfo \in {NoDiagInfo, StaleDiagInfo}

\* C15: smooth validates before it computes anything.  With a non-finite
\* value or a decrease in xVals (equal neighbours are no fault), or a
\* non-finite value in yVals or in the weights, it fails with
\* InvalidSequence; with none of these and a yVals or weights array whose
\* length differs from that of xVals it fails with DimensionMismatch; in both
\* cases no pass has run and diagInfo is untouched, for every number of
\* points, 2 or fewer included.  Without any of these faults it fails with
\* neither error.
C15_SmoothValidation ==
    entry = "smooth" =>
        /\ InvalidSequenceFault => FailedUntouched("InvalidSequence")
        /\ (~InvalidSequenceFault /\ DimensionFault) => FailedUntouched("DimensionMismatch")
        /\ (~InvalidSequenceFault /\ ~DimensionFault)
               => f.err \notin {"InvalidSequence", "DimensionMismatch"}

\* Two points with equal x, two finite y and a NaN among the two weights:
\* the fault is found although smooth would return yVals without it.
C15_Witness ==
    /\ entry = "smooth"
    /\ xVals = <<NumOf(1), NumOf(1)>>
    /\ Len(yVals) = 2 /\ ~HasNonFinite(yVals)
    /\ parms.weights.defined /\ Len(parms.weights.val) = 2
    /\ isNaN(parms.weights.val[1])
    /\ f.err = "InvalidSequence"

\* The arrays and parameters are valid for smooth.
ValidForSmooth == ~InvalidSequenceFault /\ ~DimensionFault

\* C16: for valid arrays of 2 or fewer points smooth returns a new array
\* object with the elements of yVals, and runs no regression pass, whatever
\* the weights, bandwidthFraction, robustnessIters, accuracy and
\* outlierDistanceFactor are.
C16_TrivialCase ==
    (entry = "smooth" /\ ValidForSmooth /\ Len(xVals) <= 2)
        => /\ f.err = ""
           /\ f.fit = yVals
           /\ Len(f.fit) = Len(xVals)
           /\ f.obj = "private"
           /\ f.passes = <<>>

\* Two points whose weights are both 0, with every optional parameter set:
\* a regression would fail for want of points, yet yVals comes back.
C16_Witness ==
    /\ entry = "smooth"
    /\ Len(xVals) = 2
    /\ yVals = <<NumOf(0), NumOf(1)>>
    /\ parms.weights = Weights(<<NumOf(0), NumOf(0)>>)
    /\ parms.bandwidthFraction = NumOf(1)
    /\ parms.robustnessIters = NumOf(1)
    /\ parms.accuracy = PowerOfTen(0)
    /\ parms.outlierDistanceFactor = NumOf(1)
    /\ f.err = ""
    /\ f.fit = yVals

\* The parameters smooth works with, and the number of passes run.
RobustnessIters == OrDefault(parms.robustnessIters, DefaultRobustnessIters)
OutlierDistanceFactor == OrDefault(parms.outlierDistanceFactor, DefaultOutlierDistanceFactor)
Passes == Len(f.passes)

\* The residuals |fit[i] - y[i]| of pass k (the first pass is pass 1), their
\* median, and whether the median is below the accuracy.
Residuals(k) == [i \in 1..Len(f.passes[k].fit) |-> MathAbs(Sub(f.passes[k].fit[i], yVals[i]))]
MedianResidual(k) == getMedian(Residuals(k))
BelowAccuracy(k) == LtPowerOfTen(MedianResidual(k), AccuracyDigits(parms))

\* The weights of the pass that follows pass k: the caller's weights
\* times the biweight of residual / (median residual * outlierDistanceFactor).
RobustWeights(k) ==
    LET outlierDistance == Mul(MedianResidual(k), OutlierDistanceFactor)
        robustness == [i \in 1..Len(xVals) |-> biWeight(Div(Residuals(k)[i], outlierDistance))]
    IN  IF parms.weights.defined
        THEN Weights([i \in 1..Len(xVals) |-> Mul(parms.weights.val[i], robustness[i])])
        ELSE Weights(robustness)

\* C17: for n >= 3 valid points and robustnessIters = R >= 0 smooth runs
\* between 1 and R + 1 regression passes.  The first uses the caller's
\* weights alone (none: weight 1 everywhere).  Every later pass follows a
\* pass whose median residual is not below the accuracy and uses the
\* caller's weights times the biweight robustness weights of that pass.
\* When smooth returns, it returns the fit of the last pass run, n numbers;
\* and fewer than R + 1 passes were run only if the median residual of that
\* last pass is below the accuracy.
C17_RobustnessLoop ==
    (entry = "smooth" /\ ValidForSmooth /\ Len(xVals) >= 3 /\ Ge(RobustnessIters, NumOf(0)))
        => /\ Passes >= 1
           /\ Le(NumOf(Passes), Add(RobustnessIters, NumOf(1)))
           /\ f.passes[1].weights = parms.weights
           /\ \A k \in 1..(Passes - 1) :
                 /\ Len(f.passes[k].fit) = Len(xVals)
                 /\ ~BelowAccuracy(k)
                 /\ f.passes[k + 1].medianResidual = MedianResidual(k)
                 /\ f.passes[k + 1].weights = RobustWeights(k)
           /\ f.err = ""
                 => /\ f.fit = f.passes[Passes].fit
                    /\ Len(f.fit) = Len(xVals)
                    /\ f.obj = "private"
                    /\ Lt(NumOf(Passes), Add(RobustnessIters, NumOf(1))) => BelowAccuracy(Passes)
           /\ f.err # "" => f.passes[Passes].fit = <<>> /\ f.fit = <<>>

\* Three points sharing one x whose y are 0, 1, 1, with the default
\* robustnessIters 2: three passes, none with a median residual below the
\* accuracy, the second and third with robustness weights that are not all 1.
C17_Witness ==
    /\ entry = "smooth"
    /\ xVals = <<NumOf(0), NumOf(0), NumOf(0)>>
    /\ yVals = <<NumOf(0), NumOf(1), NumOf(1)>>
    /\ parms.robustnessIters = Undefined
    /\ ~parms.weights.defined
    /\ f.err = ""
    /\ Passes = 3
    /\ f.passes[2].weights # Weights(Ones(3))
    /\ f.passes[3].weights = RobustWeights(2)
    /\ ~BelowAccuracy(3)

\* The number of points that are relevant to pass k: the non-zero entries
\* of its combined weights, or every point when there are no weights.
Relevant(k) ==
    LET w == f.passes[k].weights
    IN  IF w.defined THEN Cardinality({i \in 1..Len(w.val) : w.val[i] # NumOf(0)})
        ELSE Len(xVals)

\* C18: a regression pass fails with InsufficientPoints exactly when fewer
\* than 2 of its combined weights are not 0 (without weights all n points
\* count).  The error names the iteration of the failing pass, that pass is
\* the last one, and smooth returns no fitted values.
C18_InsufficientPoints ==
    (entry = "smooth" /\ ValidForSmooth /\ Len(xVals) >= 3)
        => /\ \A k \in 1..Passes :
                 /\ f.passes[k].n2 = Relevant(k)
                 /\ Relevant(k) < 2 <=> (k = Passes /\ f.err = "InsufficientPoints")
           /\ f.err = "InsufficientPoints"
                 => /\ Passes >= 1
                    /\ f.iter = Passes - 1
                    /\ f.fit = <<>>
                    /\ f.passes[Passes].fit = <<>>

\* Three points sharing one x whose y are 0, 1, 1, no weights and
\* outlierDistanceFactor 1: every residual of the first pass is as large as
\* the outlier distance, all robustness weights are 0 and the pass of
\* iteration 1 fails.
C18_Witness ==
    /\ entry = "smooth"
    /\ xVals = <<NumOf(0), NumOf(0), NumOf(0)>>
    /\ yVals = <<NumOf(0), NumOf(1), NumOf(1)>>
    /\ ~parms.weights.defined
    /\ parms.outlierDistanceFactor = NumOf(1)
    /\ f.err = "InsufficientPoints"
    /\ f.iter = 1
    /\ Passes = 2
    /\ Relevant(1) = 3 /\ Relevant(2) = 0

----------------------------------------------------------------------------
(* The diagnostics object.                                                 *)

\* The second of two calls has returned or thrown.
Repeated == pc = "repeated"

\* A step writes to none of xVals, yVals and weights, and to none of the
\* numeric parameters.
InputsUntouched ==
    /\ xVals' = xVals
    /\ yVals' = yVals
    /\ [parms' EXCEPT !.diagInfo = NoDiagInfo] = [parms EXCEPT !.diagInfo = NoDiagInfo]

\* C21: the diagnostics object is only written.  For the same xVals, yVals,
\* weights and parameters smooth returns the same fitted values, and
\* createLoessInterpolator a function with the same values, and each throws
\* the same error, whether the diagInfo object is absent, empty or filled
\* with values; and smooth writes to none of xVals, yVals and weights.
C21_DiagnosticsWriteOnly == [](Repeated => f = ref.first) /\ [][InputsUntouched]_vars

\* smooth called without a diagInfo and then with a filled one on 3 or more
\* points: both calls ran a robustness iteration and the second wrote its
\* weights over the ones the object held.
C21_Witness ==
    /\ Repeated
    /\ entry = "smooth"
    /\ Len(xVals) >= 3
    /\ ~ref.diagInfo.defined
    /\ parms.diagInfo.defined
    /\ f.err = ""
    /\ Len(f.passes) >= 2
    /\ parms.diagInfo.robustnessWeights = f.diag.robustnessWeights
    /\ parms.diagInfo.robustnessWeights # StaleDiagInfo.robustnessWeights
    /\ parms.diagInfo.robustnessWeights # EmptyDiagInfo.robustnessWeights

\* createLoessInterpolator called with a filled diagInfo and then with none:
\* the same function of 3 or more knots.
C21_LoessWitness ==
    /\ Repeated
    /\ entry = "createLoessInterpolator"
    /\ ref.diagInfo.defined
    /\ ~parms.diagInfo.defined
    /\ f.err = ""
    /\ f.kind = "poly"
    /\ Len(ref.diagInfo.knotXVals.val) >= 3

\* Both calls threw InsufficientPoints.
C21_ErrorWitness ==
    /\ Repeated
    /\ entry = "smooth"
    /\ ref.diagInfo.defined # parms.diagInfo.defined
    /\ f.err = "InsufficientPoints"

----------------------------------------------------------------------------
(* The fallback against the plain dispatcher.                              *)

\* createInterpolatorWithFallback has returned; what createInterpolator
\* returns or throws for the same method and arrays.
FallbackReturned == entry = "createInterpolatorWithFallback" /\ pc \in {"returned", "evaluated"}
Plain == createInterpolator(method, CallerX, CallerY)

\* The fallback's function was created and answers the query as the plain
\* function does.
AnswersAsPlain ==
    /\ f.err = ""
    /\ pc = "evaluated" => r = Apply(Plain, q, xVals, yVals)

\* C28, as stated: for every method name and every (xVals, yVals) on which
\* createInterpolator succeeds, createInterpolatorWithFallback succeeds too
\* and the two functions give the same value at every query, also for
\* nearestNeighbor and loess with 0 or 1 points.
C28_FallbackAgrees ==
    (FallbackReturned /\ Plain.err = "") => AnswersAsPlain

\* C28, as far as it holds: the same except for nearestNeighbor with no
\* point, where createInterpolator returns the function that is NaN
\* everywhere and the fallback the function that is 0 everywhere.
C28_FallbackAgreesButEmpty ==
    (FallbackReturned /\ Plain.err = "")
        => IF method = "nearestNeighbor" /\ Len(xVals) = 0
           THEN /\ f.err = ""
                /\ Plain.kind = "nan"
                /\ pc = "evaluated" => r.val = NumOf(0)
           ELSE AnswersAsPlain

\* nearestNeighbor with one point, evaluated: the fallback's constant is
\* the y the plain function returns.
C28_Witness ==
    /\ FallbackReturned
    /\ method = "nearestNeighbor"
    /\ Len(xVals) = 1 /\ Len(yVals) = 1
    /\ yVals[1] # NumOf(0)
    /\ pc = "evaluated"
    /\ Plain.err = "" /\ Plain.kind = "first"
    /\ f.kind = "const"
    /\ r.val = yVals[1]

----------------------------------------------------------------------------
(* Akima derivatives and Hermite segments.                                 *)

\* computeAkimaPolyCoefficients has returned for n + 1 >= 5 points.
AkimaReturned ==
    entry = "computeAkimaPolyCoefficients" /\ pc = "returned" /\ Len(xVals) >= 5

\* The assignments at index i (0-based), and the array they leave.
StepsAt(i) == {k \in 1..Len(f.steps) : f.steps[k].index = i}
RECURSIVE ApplySteps(_, _, _)
ApplySteps(steps, k, fd) ==
    IF k > Len(steps) THEN fd
    ELSE ApplySteps(steps, k + 1, SetAt(fd, steps[k].index, steps[k].val))

\* The weights w[i+1] and w[i-1] the assignment at index i looks at.
WeightAt(i) == At(akimaWeights(akimaDifferences(xVals, yVals)), i)

SegmentMatchesKnots(k) ==
    /\ Len(f.coeffs[k]) \in 1..4
    /\ f.coeffs[k] = trimPoly(f.coeffs[k])
    /\ PolyValue(k, NumOf(0)) = yVals[k]
    /\ PolyFirst(k, NumOf(0)) = f.firstDerivatives[k]
    /\ PolyValue(k, Width(k)) = yVals[k + 1]
    /\ PolyFirst(k, Width(k)) = f.firstDerivatives[k + 1]

\* C30: for strictly increasing x, any y and any first derivatives of the
\* same length >= 2, every segment i computeHermitePolyCoefficients builds
\* has the value y_i and the derivative f'_i at the local coordinate 0 and
\* the value y_{i+1} and the derivative f'_{i+1} at w = x_{i+1} - x_i; so
\* the Akima interpolant has one value and one first derivative at every
\* interior knot, also after trimPoly has dropped zero coefficients.
C30_HermiteSegments ==
    /\ (entry \in {"computeHermitePolyCoefficients", "computeAkimaPolyCoefficients"}
           /\ pc = "returned" /\ f.err = "")
          => /\ Len(f.coeffs) = Len(xVals) - 1
             /\ \A k \in 1..(Len(xVals) - 1) : SegmentMatchesKnots(k)
             /\ \A k \in 1..(Len(xVals) - 2) :
                    /\ PolyValue(k, Width(k)) = PolyValue(k + 1, NumOf(0))
                    /\ PolyFirst(k, Width(k)) = PolyFirst(k + 1, NumOf(0))
    /\ (entry = "computeHermitePolyCoefficients" /\ pc = "returned") => f.err = ""

\* Akima coefficients over unevenly spaced points with a segment trimmed to
\* fewer than 4 coefficients beside a segment of degree 3, the derivative at
\* the knot between them not 0.
C30_AkimaWitness ==
    /\ AkimaReturned
    /\ f.err = ""
    /\ \E k \in 1..(Len(xVals) - 2) :
           /\ Len(f.coeffs[k]) < 4
           /\ Len(f.coeffs[k + 1]) = 4
           /\ Width(k) # NumOf(1)
           /\ f.firstDerivatives[k + 1] # NumOf(0)

\* Hermite coefficients for derivatives of the caller's: two segments of
\* width 2 or more, one trimmed to a line and one of degree 3.
C30_Witness ==
    /\ entry = "computeHermitePolyCoefficients"
    /\ pc = "returned"
    /\ \E k \in 1..(Len(xVals) - 1), m \in 1..(Len(xVals) - 1) :
           /\ Len(f.coeffs[k]) = 2
           /\ Len(f.coeffs[m]) = 4
           /\ Gt(Width(k), NumOf(1)) /\ Gt(Width(m), NumOf(1))

----------------------------------------------------------------------------
(* Robustness weights without caller weights.                              *)

\* smooth was called on 3 or more valid points without caller weights and
\* with an outlierDistanceFactor of 1 or more (the accuracy is positive).
UnweightedCall ==
    /\ entry = "smooth" /\ ValidForSmooth /\ Len(xVals) >= 3
    /\ ~parms.weights.defined
    /\ Ge(OutlierDistanceFactor, NumOf(1))

\* Pass k + 1 gave a non-zero weight to every point whose residual in pass
\* k is at most the median (strictly below it), and so to 2 points at least.
KeepsUpToMedian(k) ==
    /\ \A i \in 1..Len(xVals) :
           Le(Residuals(k)[i], MedianResidual(k)) => f.passes[k + 1].weights.val[i] # NumOf(0)
    /\ Relevant(k + 1) >= 2
KeepsBelowMedian(k) ==
    \A i \in 1..Len(xVals) :
        /\ Lt(Residuals(k)[i], MedianResidual(k)) => f.passes[k + 1].weights.val[i] # NumOf(0)
        /\ Ge(Residuals(k)[i], MedianResidual(k)) => f.passes[k + 1].weights.val[i] = NumOf(0)

\* C27, as stated: smooth called without caller weights on n >= 3 points
\* with accuracy > 0 and outlierDistanceFactor >= 1 never fails with
\* InsufficientPoints; in every robustness iteration that is run every
\* point whose residual is at most the median gets a non-zero weight, so at
\* least 2 points keep one.
C27_NeverInsufficient ==
    UnweightedCall
        => /\ f.err # "InsufficientPoints"
           /\ \A k \in 1..(Passes - 1) : KeepsUpToMedian(k)

\* C27, as far as it holds: the same for an outlierDistanceFactor above 1.
\* With the factor 1 a residual equal to the median is at the outlier
\* distance: the points strictly below the median keep a non-zero weight,
\* the others get 0, and the pass fails with InsufficientPoints exactly
\* when fewer than 2 residuals are below the median.
C27_NeverInsufficientAboveOne ==
    UnweightedCall
        => IF Gt(OutlierDistanceFactor, NumOf(1))
           THEN /\ f.err # "InsufficientPoints"
                /\ \A k \in 1..(Passes - 1) : KeepsUpToMedian(k)
           ELSE /\ \A k \in 1..(Passes - 1) : KeepsBelowMedian(k)
                /\ f.err = "InsufficientPoints"
                       <=> (Passes >= 2 /\ Relevant(Passes) < 2)

\* Default parameters, no weights: a robustness iteration was run in which
\* a point above the median and a point not above it both kept a non-zero
\* weight.
C27_Witness ==
    /\ UnweightedCall
    /\ parms.outlierDistanceFactor = Undefined
    /\ f.err = ""
    /\ \E k \in 1..(Passes - 1) :
           /\ \E i \in 1..Len(xVals) :
                  /\ Gt(Residuals(k)[i], MedianResidual(k))
                  /\ f.passes[k + 1].weights.val[i] # NumOf(0)
           /\ \E i \in 1..Len(xVals) :
                  /\ Le(Residuals(k)[i], MedianResidual(k))
                  /\ f.passes[k + 1].weights.val[i] # NumOf(0)

----------------------------------------------------------------------------
(* Knot thinning.                                                          *)

\* The knot filter has been applied: by createKnotFilter itself, or by a
\* createLoessInterpolator whose smooth returned (the diagInfo object then
\* holds the fitted values, the filter and the knots).
Thinned ==
    \/ entry = "createKnotFilter"
    \/ (entry = "createLoessInterpolator" /\ parms.diagInfo.defined
           /\ parms.diagInfo.fitYVals.defined)

FittedYVals == IF entry = "createKnotFilter" THEN yVals ELSE parms.diagInfo.fitYVals.val
KnotFilter == IF entry = "createKnotFilter" THEN f.knotFilter ELSE parms.diagInfo.knotFilter
KnotXVals == IF entry = "createKnotFilter" THEN f.knotXVals ELSE parms.diagInfo.knotXVals.val
KnotYVals == IF entry = "createKnotFilter" THEN f.knotYVals ELSE parms.diagInfo.knotYVals.val
MinXDistance == OrDefault(parms.minXDistance, getDefaultMinXDistance(xVals))

\* The kept points (1-based), and the x of the knot kept before point i.
Kept == {i \in 1..Len(KnotFilter) : KnotFilter[i]}
PrevKeptX(i) ==
    LET before == {j \in Kept : j < i}
    IN  IF before = {} THEN NInf
        ELSE xVals[CHOOSE j \in before : \A k \in before : k <= j]

\* The elements of a at the kept points, in order.
RECURSIVE KeptOf(_, _)
KeptOf(a, i) ==
    IF i > Len(a) THEN <<>>
    ELSE (IF i \in Kept THEN <<a[i]>> ELSE <<>>) \o KeptOf(a, i + 1)

\* The knots are strictly increasing in x and the interpolator took them.
KnotsAccepted ==
    /\ \A i \in 1..(Len(KnotXVals) - 1) : Lt(KnotXVals[i], KnotXVals[i + 1])
    /\ \A i \in 1..Len(KnotYVals) : ~isNaN(KnotYVals[i])
    /\ entry = "createLoessInterpolator" => f.err = ""

\* C19, as far as it holds: point i is kept iff x[i] minus the x of the
\* knot kept before it (-Infinity at first) is >= minXDistance and the
\* fitted y[i] is not NaN; the knots are the kept points in order and none
\* has a NaN y; for minXDistance 5 and x = [0, 1, 2, 6, 11] without NaN fits
\* the points 0, 3, 4 are kept; and when minXDistance is positive, as the
\* default is, the knots are strictly increasing and accepted.
C19_KnotRule ==
    Thinned
        => /\ Len(KnotFilter) = Len(xVals)
           /\ \A i \in 1..Len(xVals) :
                 KnotFilter[i] <=> /\ Ge(Sub(xVals[i], PrevKeptX(i)), MinXDistance)
                                   /\ ~isNaN(FittedYVals[i])
           /\ KnotXVals = KeptOf(xVals, 1)
           /\ KnotYVals = KeptOf(FittedYVals, 1)
           /\ \A i \in 1..Len(KnotYVals) : ~isNaN(KnotYVals[i])
           /\ (xVals = KnotExampleX /\ MinXDistance = NumOf(5)
                   /\ \A i \in 1..5 : ~isNaN(FittedYVals[i]))
                 => Kept = {1, 4, 5}
           /\ Gt(MinXDistance, NumOf(0)) => KnotsAccepted
           /\ (parms.minXDistance = Undefined /\ Len(xVals) > 0) => Gt(MinXDistance, NumOf(0))

\* C19, as stated: for every non-decreasing xVals and every minXDistance the
\* kept knots are strictly increasing in x, free of NaN, and accepted by the
\* interpolator they are passed to.
C19_KnotsAlwaysAccepted ==
    (Thinned /\ checkMonotonicallyIncreasing(xVals) = "") => KnotsAccepted

\* Two points with the same x and minXDistance 0: smooth returns yVals, both
\* points are kept, and the constructor of the interpolator rejects the knots.
C19_Witness ==
    /\ entry = "createLoessInterpolator"
    /\ xVals = <<NumOf(0), NumOf(0)>>
    /\ yVals = <<NumOf(1), NumOf(1)>>
    /\ parms.minXDistance = NumOf(0)
    /\ parms.diagInfo.knotFilter = <<TRUE, TRUE>>
    /\ parms.diagInfo.knotXVals = Weights(<<NumOf(0), NumOf(0)>>)
    /\ f.err = "InvalidSequence"

----------------------------------------------------------------------------
(* smooth on noise-free linear data, in floats.                            *)

\* smooth was called in floats with default parameters and no weights on
\* n >= 3 points of a line y = a * x + b.
NoiseFreeLinear == \E a \in LinearSlopes, b \in LinearIntercepts : yVals = Line(a, b, xVals)
DefaultParameters ==
    /\ parms.weights = NoWeights
    /\ parms.bandwidthFraction = Undefined
    /\ parms.robustnessIters = Undefined
    /\ parms.accuracy = Undefined
    /\ parms.outlierDistanceFactor = Undefined
SmoothedLine ==
    /\ entry = "smooth"
    /\ pc \in {"returned", "reapplied"}
    /\ f.kind = "fit64"
    /\ Len(xVals) >= 3
    /\ NoiseFreeLinear
    /\ DefaultParameters

\* The loop stopped at iteration 1: one regression pass, then a median
\* residual below accuracy.
StoppedEarly(sm) == sm.err = "" /\ sm.iter = 1 /\ Len(sm.passes) = 1

\* |a[i] - b[i]| < 1E-12 at every point.
Accuracy64 == F64PowerOfTen(DefaultAccuracyDigits)
WithinAccuracy(a, b) ==
    /\ Len(a) = Len(b)
    /\ \A i \in 1..Len(a) : F64Lt(F64Abs(F64Sub(a[i], b[i])), Accuracy64)

\* C20: for noise-free linear data y[i] = a * x[i] + b on n >= 3 points, with
\* no caller weights and default parameters, smooth returns fit[i] = y[i] at
\* every point, the robustness loop stops early at iteration 1 because the
\* median residual is below accuracy, and smooth applied to xVals and its
\* own output returns the same fitted values again.
C20_NoiseFreeLinear ==
    SmoothedLine =>
        /\ StoppedEarly(f)
        /\ f.fit = F64Array(yVals)
        /\ (pc = "reapplied" => r.err = "" /\ r.fit = f.fit)

\* The same with every equality weakened to a difference below accuracy:
\* the fit is within 1E-12 of the data, the loop stops early, and the second
\* fit is within 1E-12 of the first.
C20_WithinAccuracy ==
    SmoothedLine =>
        /\ StoppedEarly(f)
        /\ WithinAccuracy(f.fit, F64Array(yVals))
        /\ (pc = "reapplied" => r.err = "" /\ WithinAccuracy(r.fit, f.fit))

\* What does hold: smooth throws nothing; where the x values start at 0 or
\* 1 the loop stops early, the fit is within 1E-12 of the data and the
\* second fit within 1E-12 of the first; and a constant line (a = 0) is
\* reproduced exactly, early and idempotently, wherever it lies.
C20_NearTheOrigin ==
    SmoothedLine =>
        /\ f.err = ""
        /\ (pc = "reapplied" => r.err = "")
        /\ (Le(xVals[1], NumOf(1)) =>
               /\ StoppedEarly(f)
               /\ WithinAccuracy(f.fit, F64Array(yVals))
               /\ (pc = "reapplied" => WithinAccuracy(r.fit, f.fit)))
        /\ (yVals = Line(NumOf(0), yVals[1], xVals) =>
               /\ StoppedEarly(f)
               /\ f.fit = F64Array(yVals)
               /\ (pc = "reapplied" => r.fit = f.fit))

\* The case of C20 at its worst: a line away from the origin, all three
\* passes run, a fitted value 1/4 or more away from the data, and a second
\* fit that differs from the first.
C20_Witness ==
    /\ SmoothedLine
    /\ pc = "reapplied"
    /\ f.err = ""
    /\ Len(f.passes) = 3
    /\ \E i \in 1..Len(f.fit) :
          F64Ge(F64Abs(F64Sub(f.fit[i], F64Of(yVals[i]))), F64Of(Rat(1, 4)))
    /\ r.fit # f.fit

----------------------------------------------------------------------------
(* The bandwidth window of a regression pass.                              *)

\* A regression pass on n2 >= 2 relevant points has begun.
InPass == entry = "calculateSequenceRegression" /\ f.n2 >= 2

\* Point k (0-based) has a non-zero weight; the points of a..b that have.
NonZeroWeight(k) == ~parms.weights.defined \/ parms.weights.val[k + 1] # NumOf(0)
NonZeroIn(a, b) == {k \in a..b : k >= 0 /\ k < Len(xVals) /\ NonZeroWeight(k)}

\* The bandwidth the pass should work with.
BandwidthFraction == OrDefault(parms.bandwidthFraction, DefaultBandwidthFraction)
Bandwidth ==
    MathMax(NumOf(2), MathMin(NumOf(f.n2), MathRound(Mul(NumOf(f.n2), BandwidthFraction))))

\* The window bw lies in the array and ends at points of non-zero weight;
\* it holds b points of non-zero weight.
WindowInArray(bw) ==
    /\ 0 <= bw.iLeft /\ bw.iLeft <= bw.iRight /\ bw.iRight < Len(xVals)
    /\ NonZeroWeight(bw.iLeft) /\ NonZeroWeight(bw.iRight)
WindowHolds(bw, b) == NumOf(Cardinality(NonZeroIn(bw.iLeft, bw.iRight))) = b

\* The windows the pass has had so far: the one it has now (the initial
\* one, then the one after every shift) and the ones recorded.
WindowsSoFar == {f.bw, f.initial} \cup {[f.bw EXCEPT !.iLeft = f.windows[j].iLeft,
                                                     !.iRight = f.windows[j].iRight] :
                                            j \in 1..Len(f.windows)}

\* C22, as stated: in every regression pass with n2 >= 2 points of non-zero
\* weight the bandwidth is b = max(2, min(n2, round(n2 * bandwidthFraction)))
\* and the window, after it is found and after every shift, satisfies
\* 0 <= iLeft <= iRight < n, ends at points of non-zero weight and holds
\* exactly b points of non-zero weight.
C22_BandwidthWindow ==
    InPass
        => /\ f.n2 = Cardinality(NonZeroIn(0, Len(xVals) - 1))
           /\ f.bandwidthInPoints = Bandwidth
           /\ \A bw \in WindowsSoFar : WindowInArray(bw) /\ WindowHolds(bw, Bandwidth)

\* C22, as far as it holds: the same for every bandwidthFraction that is a
\* number; with a bandwidthFraction that is NaN the bandwidth is NaN and the
\* window is one point of non-zero weight.
C22_BandwidthWindowOfNumber ==
    InPass
        => /\ f.n2 = Cardinality(NonZeroIn(0, Len(xVals) - 1))
           /\ f.bandwidthInPoints = Bandwidth
           /\ \A bw \in WindowsSoFar :
                 /\ WindowInArray(bw)
                 /\ IF isNaN(BandwidthFraction) THEN isNaN(Bandwidth) /\ bw.iLeft = bw.iRight
                    ELSE WindowHolds(bw, Bandwidth)

\* Five points, the second and fourth with weight 0, default
\* bandwidthFraction: the bandwidth is 2, the initial window 0..2 holds a
\* point of weight 0, and the pass ends with a window that was shifted.
C22_Witness ==
    /\ InPass
    /\ pc = "done"
    /\ Len(xVals) = 5
    /\ parms.bandwidthFraction = Undefined
    /\ parms.weights = Weights(<<NumOf(1), NumOf(0), NumOf(1), NumOf(0), NumOf(1)>>)
    /\ f.bandwidthInPoints = NumOf(2)
    /\ f.initial.iLeft = 0 /\ f.initial.iRight = 2
    /\ f.bw.iLeft = 2 /\ f.bw.iRight = 4

\* b is the first index after a with a non-zero weight.
NextNonZero(a, b) ==
    /\ b > a /\ b < Len(xVals)
    /\ NonZeroWeight(b)
    /\ \A k \in (a + 1)..(b - 1) : ~NonZeroWeight(k)

\* A step of the pass: the window's ends do not decrease, and when the
\* window changes, both ends have advanced to the next index of non-zero
\* weight and one shift was counted.
WindowStep ==
    (pc # "start" /\ pc' # "start")
        => /\ f'.bw.iLeft >= f.bw.iLeft
           /\ f'.bw.iRight >= f.bw.iRight
           /\ f'.bw # f.bw
                 => /\ NextNonZero(f.bw.iLeft, f'.bw.iLeft)
                    /\ NextNonZero(f.bw.iRight, f'.bw.iRight)
                    /\ f'.shifts = f.shifts + 1
                    /\ f'.i = f.i

\* The windows of successive points do not decrease, the window a point is
\* fitted with is the one moveBandwidthInterval returns for the window of
\* the point before, and the shifts of the pass number at most n.
WindowsAscend ==
    InPass
        => /\ \A j \in 1..Len(f.windows) :
                 /\ f.windows[j].entered.iLeft <= f.windows[j].iLeft
                 /\ f.windows[j].entered.iRight <= f.windows[j].iRight
                 /\ j > 1 => /\ f.windows[j].entered.iLeft = f.windows[j - 1].iLeft
                             /\ f.windows[j].entered.iRight = f.windows[j - 1].iRight
                 /\ LET bw == moveBandwidthInterval(f.windows[j].entered, xVals[j], xVals,
                                                    parms.weights)
                    IN  bw.iLeft = f.windows[j].iLeft /\ bw.iRight = f.windows[j].iRight
           /\ f.shifts <= Len(xVals)
           /\ f.shifts = f.bw.iLeft - f.initial.iLeft
                             - Cardinality({k \in f.initial.iLeft..(f.bw.iLeft - 1) :
                                                ~NonZeroWeight(k)})

\* The pass has returned or thrown.
PassEnded == pc \in {"done", "failed"}

\* C23: within a regression pass iLeft and iRight never decrease from one
\* evaluation point to the next, each shift advances both to the next index
\* of non-zero weight, the shift loop ends for every evaluation point (the
\* pass ends), and the shifts of a pass over n points number at most n.
C23_SlidingWindow == [][WindowStep]_vars /\ []WindowsAscend /\ <>PassEnded

\* A pass over five points that shifted its window at least twice and, in
\* one shift, passed over a point of weight 0.
C23_Witness ==
    /\ InPass
    /\ pc = "done"
    /\ f.shifts >= 2
    /\ \E j \in 1..Len(f.windows) : f.windows[j].iLeft >= f.windows[j].entered.iLeft + 2
    /\ \E k \in f.initial.iLeft..f.bw.iLeft : ~NonZeroWeight(k)

\* The distance of point k (0-based) from x.
Dist(k, x) == MathAbs(Sub(xVals[k + 1], x))

\* No point of non-zero weight outside the window bw is strictly closer
\* to x than the farthest point of non-zero weight inside it.
HoldsNearest(bw, x) ==
    LET inside == NonZeroIn(bw.iLeft, bw.iRight)
        outside == NonZeroIn(0, Len(xVals) - 1) \ inside
    IN  \A k \in outside : \A m \in inside : ~Lt(Dist(k, x), Dist(m, x))

\* C25: for every evaluation point x of a pass, the window
\* moveBandwidthInterval leaves holds the nearest points of non-zero weight:
\* none outside it, left or right, is strictly closer to x than the
\* farthest inside; with duplicate x values and with points of weight 0
\* between or at the evaluation points.
C25_NearestPoints ==
    InPass
        => /\ \A j \in 1..Len(f.windows) : HoldsNearest(f.windows[j], xVals[j])
           /\ pc = "moved" => HoldsNearest(f.bw, At(xVals, f.i))

\* A finished pass over points with a duplicate x in which a point of
\* weight 0 was an evaluation point left of its window and another lies
\* inside a window, and the window was shifted.
C25_Witness ==
    /\ InPass
    /\ pc = "done"
    /\ \E i \in 1..(Len(xVals) - 1) : xVals[i] = xVals[i + 1]
    /\ \E j \in 1..Len(f.windows) : ~NonZeroWeight(j - 1) /\ j - 1 < f.windows[j].iLeft
    /\ \E j \in 1..Len(f.windows) :
           \E k \in f.windows[j].iLeft..f.windows[j].iRight : ~NonZeroWeight(k)
    /\ f.shifts >= 1

\* 1.001 * max(x - x[iLeft], x[iRight] - x), replaced by 1 when it is 0.
MaxDistance(w, x) ==
    LET wider == MathMax(Sub(x, xVals[w.iLeft + 1]), Sub(xVals[w.iRight + 1], x))
    IN  IF wider = NumOf(0) THEN NumOf(1) ELSE Mul(Rat(1001, 1000), wider)

\* What the program computes in floats for point k of window w around x.
KernelWeightOf(w, x, k) == KernelWeights64[<<x[1], xVals[w.iLeft + 1][1], xVals[w.iRight + 1][1], xVals[k + 1][1]>>]

\* Point k of window w is strictly nearer to x than the maximal distance,
\* as numbers and as the floats the program computes, and the tri-cube
\* weight the program gives it is positive.
WithinKernel(w, x, k) ==
    /\ Lt(Dist(k, x), w.maxDist)
    /\ Lt(Div(Dist(k, x), w.maxDist), NumOf(1))
    /\ F64Lt(KernelWeightOf(w, x, k).dist, KernelWeightOf(w, x, k).maxDist)
    /\ F64Lt(F64Zero, KernelWeightOf(w, x, k).w2)

C26_WindowErrorsUnreachable ==
    InPass
        => /\ f.err = ""
           /\ pc # "failed"
           /\ f.reads \subseteq 0..(Len(xVals) - 1)

\* A finished pass whose first and last point have weight 0 and which has
\* exactly 2 points of non-zero weight: the searches for the window's ends
\* run to the last of them, and past it to n when the window is moved.
C26_Witness ==
    /\ InPass
    /\ pc = "done"
    /\ f.n2 = 2
    /\ ~NonZeroWeight(0) /\ ~NonZeroWeight(Len(xVals) - 1)
    /\ findNonZero(parms.weights, f.bw.iRight + 1) = Len(xVals)
    /\ f.reads = {f.bw.iLeft, f.bw.iRight}

====
